---- MODULE Spec2Model ----
(***************************************************************************)
(* Model of options-guru's pricing core (src/utils/black_scholes.py): the  *)
(* BlackScholes valuation engine and the Newton-Raphson implied-volatility *)
(* solver calculate_implied_volatility.                                    *)
(*                                                                         *)
(* Numbers.  The code computes in IEEE-754 binary64 (Python float and      *)
(* numpy.float64).  TLA+ has integers only, so a number is modelled as a   *)
(* decimal floating-point value [m, e] standing for m * 10^e, with an      *)
(* 8-digit mantissa (10^7 <= |m| < 10^8, or m = 0), results rounded to the *)
(* nearest, and the exponent range of binary64: a result above             *)
(* 1.7976931e308 overflows to +/-inf and one below 2.4703282e-324          *)
(* underflows to 0.  inf and nan follow the IEEE rules numpy applies       *)
(* (x/0 = +/-inf, 0/0 = inf-inf = inf/inf = 0*inf = nan, every comparison  *)
(* with nan is false).  Not modelled: the sign of zero, and the loss of    *)
(* precision of subnormal numbers.  A Python-level exception raised while  *)
(* an expression is evaluated (ZeroDivisionError of float / float) is the  *)
(* value Raised, which every operation propagates.                         *)
(***************************************************************************)
EXTENDS Integers, Sequences, FiniteSets, TLC

MantLo == 10^7
MantHi == 10^8
Limb   == 10^4
EMax   == 308 - 7
EMin   == -(324 + 7)
ESpec  == EMax + 1

F(m, e) == [m |-> m, e |-> e]
Zero    == F(0, 0)
PosInf  == F(1, ESpec)
NegInf  == F(-1, ESpec)
NaN     == F(0, ESpec)
Raised  == F(2, ESpec)

Sgn(x) == IF x > 0 THEN 1 ELSE IF x < 0 THEN -1 ELSE 0
Abs(x) == IF x < 0 THEN -x ELSE x
TruncDiv(x, y) == IF x >= 0 THEN x \div y ELSE -((-x) \div y)

IsNaN(a)    == a = NaN
IsInf(a)    == a = PosInf \/ a = NegInf
IsFinite(a) == a.e # ESpec
IsNumber(a) == a # Raised

SignedInf(s) == IF s > 0 THEN PosInf ELSE NegInf

\* Overflow to inf and underflow to zero at the limits of binary64.
Range(s, a, e) ==
  IF e > EMax \/ (e = EMax /\ a > 17976931) THEN SignedInf(s)
  ELSE IF e < EMin \/ (e = EMin /\ a < 24703282) THEN Zero
  ELSE F(s * a, e)

Digits(a) == IF a >= 10^9 THEN 10
             ELSE CHOOSE d \in 1..9 : a < 10^d /\ a >= 10^(d - 1)

\* s * q * 10^e for a rounded mantissa q, which rounding may have carried to 10^8.
Carried(s, q, e) ==
  IF q = MantHi THEN Range(s, MantLo, e + 1) ELSE Range(s, q, e)

\* s * a * 10^e where a has sh + 8 digits: rounded to eight (halves away from zero).
NormDigits(s, a, e, sh) ==
  IF sh > 0 THEN Carried(s, (a \div (10^(sh - 1)) + 5) \div 10, e + sh)
  ELSE Range(s, a * (10^(-sh)), e + sh)

\* The float nearest to m * 10^e, for any integer m.
Norm(m, e) ==
  IF m = 0 THEN Zero
  ELSE NormDigits(Sgn(m), Abs(m), e, Digits(Abs(m)) - 8)

FromInt(n) == Norm(n, 0)
Lit(m, e)  == Norm(m, e)
One        == FromInt(1)

\* -a
FNeg(a) ==
  IF a = Raised \/ IsNaN(a) THEN a
  ELSE F(-a.m, a.e)

\* x + y for finite nonzero x, y with x.e >= y.e: y is shifted to x's exponent
\* with one guard digit.
AddAligned(x, y) ==
  LET d == x.e - y.e
  IN  IF d > 9 THEN x
      ELSE Norm(x.m * 10 + TruncDiv(y.m * 10, 10^d), x.e - 1)

\* a + b
FAdd(a, b) ==
  IF a = Raised \/ b = Raised THEN Raised
  ELSE IF IsNaN(a) \/ IsNaN(b) THEN NaN
  ELSE IF IsInf(a) THEN (IF IsInf(b) /\ b # a THEN NaN ELSE a)
  ELSE IF IsInf(b) THEN b
  ELSE IF a.m = 0 THEN b
  ELSE IF b.m = 0 THEN a
  ELSE IF a.e >= b.e THEN AddAligned(a, b)
  ELSE AddAligned(b, a)

\* a - b
FSub(a, b) == FAdd(a, FNeg(b))

\* The nine leading digits of a product of mantissas, given as hh * 10^8 +
\* rest * 10^4: [q, sh] with q = product \div 10^sh.
MulLead(hh, rest) ==
  IF hh * 10 + rest \div 1000 >= MantHi
  THEN [q |-> hh * 10 + rest \div 1000, sh |-> 7]
  ELSE [q |-> hh * 100 + rest \div 100, sh |-> 6]

\* The product of mantissas x and y by halves of four digits, so that no
\* intermediate product leaves 32 bits.
MulMant(x, y) ==
  MulLead((x \div Limb) * (y \div Limb),
          (x \div Limb) * (y % Limb) + (y \div Limb) * (x % Limb)
            + ((x % Limb) * (y % Limb)) \div Limb)

MulNorm(s, p, e) == Norm(s * p.q, e + p.sh)

\* a * b
FMul(a, b) ==
  IF a = Raised \/ b = Raised THEN Raised
  ELSE IF IsNaN(a) \/ IsNaN(b) THEN NaN
  ELSE IF IsInf(a) \/ IsInf(b)
       THEN (IF a.m = 0 \/ b.m = 0 THEN NaN ELSE SignedInf(Sgn(a.m) * Sgn(b.m)))
  ELSE IF a.m = 0 \/ b.m = 0 THEN Zero
  ELSE MulNorm(Sgn(a.m) * Sgn(b.m), MulMant(Abs(a.m), Abs(b.m)), a.e + b.e)

\* The next n decimal digits of rem / y appended to q (long division).
RECURSIVE LongDiv(_, _, _, _)
LongDiv(q, rem, y, n) ==
  IF n = 0 THEN q
  ELSE LongDiv(q * 10 + (rem * 10) \div y, (rem * 10) % y, y, n - 1)

\* x / y for mantissas x, y, to nine digits.
DivMant(s, x, y, n, e) == Norm(s * LongDiv(x \div y, x % y, y, n), e - n)

\* a / b of numpy.float64: division by zero gives inf or nan, never an exception.
FDiv(a, b) ==
  IF a = Raised \/ b = Raised THEN Raised
  ELSE IF IsNaN(a) \/ IsNaN(b) THEN NaN
  ELSE IF IsInf(a) THEN (IF IsInf(b) THEN NaN
                         ELSE SignedInf(a.m * (IF b.m < 0 THEN -1 ELSE 1)))
  ELSE IF IsInf(b) THEN Zero
  ELSE IF b.m = 0 THEN (IF a.m = 0 THEN NaN ELSE SignedInf(Sgn(a.m)))
  ELSE IF a.m = 0 THEN Zero
  ELSE DivMant(Sgn(a.m) * Sgn(b.m), Abs(a.m), Abs(b.m),
               IF Abs(a.m) >= Abs(b.m) THEN 8 ELSE 9, a.e - b.e)

\* a / b of Python floats: ZeroDivisionError when b is zero.
PyDiv(a, b) ==
  IF a # Raised /\ b = Zero THEN Raised ELSE FDiv(a, b)

\* a < b for numbers other than nan.
Less(a, b, sa, sb) ==
  IF sa # sb THEN sa < sb
  ELSE IF sa = 0 THEN FALSE
  ELSE IF sa > 0 THEN a.e < b.e \/ (a.e = b.e /\ a.m < b.m)
  ELSE a.e > b.e \/ (a.e = b.e /\ a.m < b.m)

\* a < b, a <= b, a == b: false whenever an operand is nan.
FLt(a, b) ==
  /\ a # Raised /\ b # Raised /\ ~IsNaN(a) /\ ~IsNaN(b)
  /\ Less(a, b, Sgn(a.m), Sgn(b.m))
FEq(a, b) == a # Raised /\ ~IsNaN(a) /\ a = b
FLe(a, b) == FLt(a, b) \/ FEq(a, b)

\* abs(a)
FAbs(a) ==
  IF a = Raised \/ IsNaN(a) THEN a
  ELSE F(Abs(a.m), a.e)

\* The integer part of a finite a with |a| < 10^9.
ToInt(a) ==
  IF a.e >= 0 THEN a.m * 10^a.e
  ELSE IF a.e < -9 THEN 0
  ELSE TruncDiv(a.m, 10^(-a.e))

Two     == FromInt(2)
Half    == Lit(5, -1)
Hundred == FromInt(100)
LN10    == Lit(23025851, -7)
LN2     == Lit(69314718, -8)

\* The element of a one-element set.  {f(x) : x \in {e}} computes e once and
\* hands its value to f, as an assignment to a local variable does.
The(S) == CHOOSE v \in S : TRUE

\* n Newton steps y <- (y + x / y) / 2 toward the square root of x.
RECURSIVE SqrtIter(_, _, _)
SqrtIter(x, y, n) ==
  IF n = 0 THEN y
  ELSE SqrtIter(x, FMul(Half, FAdd(y, FDiv(x, y))), n - 1)

\* y * 10^h
Scale10(y, h) == Norm(y.m, y.e + h)

\* numpy.sqrt: nan (with a warning, no exception) for a negative argument.
\* sqrt(m * 10^e) = sqrt(m) * 10^(e/2) for even e, sqrt(10 m) * 10^((e-1)/2) for odd.
FSqrt(x) ==
  IF x = Raised THEN Raised
  ELSE IF IsNaN(x) \/ x.m < 0 THEN NaN
  ELSE IF x = PosInf THEN PosInf
  ELSE IF x.m = 0 THEN Zero
  ELSE IF x.e % 2 = 1
  THEN Scale10(SqrtIter(FromInt(x.m * 10), FromInt(Limb), 6), (x.e - 1) \div 2)
  ELSE Scale10(SqrtIter(FromInt(x.m), FromInt(Limb), 6), x.e \div 2)

\* u halved or doubled into [0.7071, 1.4142], with the count of halvings.
RECURSIVE LogReduce(_, _)
LogReduce(u, k2) ==
  IF FLt(Lit(14142136, -7), u) THEN LogReduce(FMul(u, Half), k2 + 1)
  ELSE IF FLt(u, Lit(70710678, -8)) THEN LogReduce(FMul(u, Two), k2 - 1)
  ELSE [u |-> u, k2 |-> k2]

\* 1 + y2/3 + y2^2/5 + ... + y2^n/(2n+1), by Horner's rule from the last term.
RECURSIVE AtanhSeries(_, _, _)
AtanhSeries(y2, j, acc) ==
  IF j < 0 THEN acc
  ELSE AtanhSeries(y2, j - 1,
                   FAdd(FDiv(One, FromInt(2 * j + 1)), FMul(y2, acc)))

\* k10 ln 10 + k2 ln 2 + 2 atanh(y), where atanh(y) = y (1 + y^2/3 + y^4/5 + ...).
LogSum(k10, k2, y) ==
  FAdd(FAdd(FMul(FromInt(k10), LN10), FMul(FromInt(k2), LN2)),
       FMul(FMul(Two, y), AtanhSeries(FMul(y, y), 5, Zero)))

\* ln(u * 2^k2 * 10^k10) with y = (u - 1) / (u + 1).
LogOfReduced(red, k10) ==
  LogSum(k10, red.k2, FDiv(FSub(red.u, One), FAdd(red.u, One)))

\* numpy.log: -inf at 0 and nan below 0 (warnings, no exception).
FLog(x) ==
  IF x = Raised THEN Raised
  ELSE IF IsNaN(x) \/ x.m < 0 THEN NaN
  ELSE IF x = PosInf THEN PosInf
  ELSE IF x.m = 0 THEN NegInf
  ELSE IF x.m >= 31622777 THEN LogOfReduced(LogReduce(F(x.m, -8), 0), x.e + 8)
  ELSE LogOfReduced(LogReduce(F(x.m, -7), 0), x.e + 7)

\* 1 + r(1 + r/2(1 + r/3(...(1 + r/n)))): the Taylor polynomial of exp.
RECURSIVE ExpSeries(_, _, _)
ExpSeries(r, n, acc) ==
  IF n = 0 THEN acc
  ELSE The({ExpSeries(r, n - 1, a) : a \in {FAdd(One, FDiv(FMul(r, acc), FromInt(n)))}})

\* q rounded to the nearest integer.
RoundToInt(q) == ToInt(FAdd(q, IF FLt(q, Zero) THEN FNeg(Half) ELSE Half))

\* exp(x) = exp(x - k ln 10) * 10^k
ExpReduced(x, k) ==
  The({Scale10(ExpSeries(r, 12, One), k) : r \in {FSub(x, FMul(FromInt(k), LN10))}})

\* numpy.exp: inf above 709.78 and 0 below -745.13, as binary64 gives.
FExp(x) ==
  IF x = Raised THEN Raised
  ELSE IF IsNaN(x) THEN NaN
  ELSE IF x = PosInf \/ FLt(Lit(70978271, -5), x) THEN PosInf
  ELSE IF x = NegInf \/ FLt(x, Lit(-74513322, -5)) THEN Zero
  ELSE ExpReduced(x, RoundToInt(FDiv(x, LN10)))

\* scipy.stats.norm.pdf: exp(-x**2 / 2) / sqrt(2 pi).
norm_pdf(x) ==
  FDiv(FExp(FDiv(FNeg(FMul(x, x)), Two)), Lit(25066283, -7))

\* b1 t + b2 t^2 + b3 t^3 + b4 t^4 + b5 t^5
TailPoly(t) ==
  FMul(t, FAdd(Lit(31938153, -8),
  FMul(t, FAdd(Lit(-35656378, -8),
  FMul(t, FAdd(Lit(17814779, -7),
  FMul(t, FAdd(Lit(-18212560, -7),
  FMul(t, Lit(13302744, -7))))))))))

\* The upper tail 1 - Phi(ax) for ax >= 0 (Abramowitz-Stegun 26.2.17,
\* absolute error below 1e-7).
UpperTail(ax) ==
  The({FMul(norm_pdf(ax), TailPoly(t)) :
       t \in {FDiv(One, FAdd(One, FMul(Lit(2316419, -7), ax)))}})

\* scipy.stats.norm.cdf.
norm_cdf(x) ==
  IF x = Raised THEN Raised
  ELSE IF IsNaN(x) THEN NaN
  ELSE The({IF FLt(x, Zero) THEN tail ELSE FSub(One, tail) :
            tail \in {UpperTail(FAbs(x))}})

(***************************************************************************)
(* The valuation engine: class BlackScholes.                               *)
(***************************************************************************)

\* BlackScholes.__init__: the five arguments are stored as given, unchecked.
BlackScholes(stock_price, strike_price, time_to_expiry, risk_free_rate, volatility) ==
  [S |-> stock_price, K |-> strike_price, T |-> time_to_expiry,
   r |-> risk_free_rate, sigma |-> volatility]

\* str.lower() on the option types the model passes.
Lower(option_type) ==
  CASE option_type = "CALL" -> "call"
    [] option_type = "PUT"  -> "put"
    [] option_type = "Call" -> "call"
    [] option_type = "Put"  -> "put"
    [] OTHER -> option_type

_d1(self) ==
  FDiv(FAdd(FLog(PyDiv(self.S, self.K)),
            FMul(FAdd(self.r, FMul(Half, FMul(self.sigma, self.sigma))), self.T)),
       FMul(self.sigma, FSqrt(self.T)))

_d2(self) == FSub(_d1(self), FMul(self.sigma, FSqrt(self.T)))

call_price(self) ==
  The({FSub(FMul(self.S, norm_cdf(d1)),
            FMul(FMul(self.K, FExp(FMul(FNeg(self.r), self.T))), norm_cdf(d2))) :
       d1 \in {_d1(self)}, d2 \in {_d2(self)}})

put_price(self) ==
  The({FSub(FMul(FMul(self.K, FExp(FMul(FNeg(self.r), self.T))), norm_cdf(FNeg(d2))),
            FMul(self.S, norm_cdf(FNeg(d1)))) :
       d1 \in {_d1(self)}, d2 \in {_d2(self)}})

\* delta with the put branch lost: both sides return N(d1).
delta_unsigned(self, option_type) == The({norm_cdf(d1) : d1 \in {_d1(self)}})

delta(self, option_type) ==
  The({IF Lower(option_type) = "call" THEN norm_cdf(d1)
       ELSE FSub(norm_cdf(d1), One) :
       d1 \in {_d1(self)}})

gamma(self) ==
  The({FDiv(norm_pdf(d1), FMul(FMul(self.S, self.sigma), FSqrt(self.T))) :
       d1 \in {_d1(self)}})

\* vega with d1 where the density of d1 belongs.
vega_of_d1(self) ==
  The({FDiv(FMul(FMul(self.S, d1), FSqrt(self.T)), Hundred) :
       d1 \in {_d1(self)}})

vega(self) ==
  The({FDiv(FMul(FMul(self.S, norm_pdf(d1)), FSqrt(self.T)), Hundred) :
       d1 \in {_d1(self)}})

\* The local theta of the method, before the division by 365.
AnnualTheta(self, option_type, d1, d2) ==
  IF Lower(option_type) = "call"
  THEN FSub(FDiv(FNeg(FMul(FMul(self.S, norm_pdf(d1)), self.sigma)),
                 FMul(Two, FSqrt(self.T))),
            FMul(FMul(FMul(self.r, self.K), FExp(FMul(FNeg(self.r), self.T))),
                 norm_cdf(d2)))
  ELSE FAdd(FDiv(FNeg(FMul(FMul(self.S, norm_pdf(d1)), self.sigma)),
                 FMul(Two, FSqrt(self.T))),
            FMul(FMul(FMul(self.r, self.K), FExp(FMul(FNeg(self.r), self.T))),
                 norm_cdf(FNeg(d2))))

theta(self, option_type) ==
  The({FDiv(annual, FromInt(365)) :
       annual \in {AnnualTheta(self, option_type, d1, d2) :
                   d1 \in {_d1(self)}, d2 \in {_d2(self)}}})

\* The value rho returns once d2 is known.
RhoFrom(self, option_type, d2) ==
  IF Lower(option_type) = "call"
  THEN FDiv(FMul(FMul(FMul(self.K, self.T), FExp(FMul(FNeg(self.r), self.T))),
                 norm_cdf(d2)), Hundred)
  ELSE FDiv(FMul(FMul(FMul(FNeg(self.K), self.T), FExp(FMul(FNeg(self.r), self.T))),
                 norm_cdf(FNeg(d2))), Hundred)

rho(self, option_type) ==
  The({RhoFrom(self, option_type, d2) : d2 \in {_d2(self)}})

get_all_greeks(self, option_type) ==
  [delta |-> delta(self, option_type),
   gamma |-> gamma(self),
   theta |-> theta(self, option_type),
   vega  |-> vega(self),
   rho   |-> rho(self, option_type)]

\* option_price = self.call_price() or self.put_price(), by the side.
option_price_of(self, option_type) ==
  IF Lower(option_type) = "call" THEN call_price(self) ELSE put_price(self)

\* The dictionary calculate_option_metrics returns once option_price is known.
MetricsOf(self, option_type, contracts, option_price) ==
  [option_price |-> option_price,
   total_cost   |-> FMul(FMul(option_price, FromInt(contracts)), Hundred),
   breakeven    |-> IF Lower(option_type) = "call"
                    THEN FAdd(self.K, option_price)
                    ELSE FSub(self.K, option_price),
   greeks       |-> get_all_greeks(self, option_type),
   contracts    |-> contracts]

\* calculate_option_metrics with the contract size lost: price * contracts.
calculate_option_metrics_unsized(self, option_type, contracts) ==
  The({IF option_price = Raised THEN Raised
       ELSE [MetricsOf(self, option_type, contracts, option_price)
               EXCEPT !.total_cost = FMul(option_price, FromInt(contracts))] :
       option_price \in {option_price_of(self, option_type)}})

\* An exception raised while pricing propagates to the caller.
calculate_option_metrics(self, option_type, contracts) ==
  The({IF option_price = Raised THEN Raised
       ELSE MetricsOf(self, option_type, contracts, option_price) :
       option_price \in {option_price_of(self, option_type)}})

\* max(0, x) without the floor: x itself.
Unfloored(x) == x

\* max(0, x) as Python computes it: x when x > 0, else the 0 it started from.
PyMax0(x) == IF FLt(Zero, x) THEN x ELSE Zero

\* The body of the loop over stock_prices: the P&L at one price.
PnlAt(self, price, option_type, contracts, premium_paid) ==
  LET intrinsic_value ==
        IF Lower(option_type) = "call"
        THEN FMul(FMul(PyMax0(FSub(price, self.K)), FromInt(contracts)), Hundred)
        ELSE FMul(FMul(PyMax0(FSub(self.K, price)), FromInt(contracts)), Hundred)
  IN  FSub(intrinsic_value, premium_paid)

\* for price in stock_prices: ... pnl_values.append(pnl)
RECURSIVE PnlLoop(_, _, _, _, _, _)
PnlLoop(self, stock_prices, option_type, contracts, premium_paid, pnl_values) ==
  IF stock_prices = <<>> THEN pnl_values
  ELSE PnlLoop(self, Tail(stock_prices), option_type, contracts, premium_paid,
               Append(pnl_values,
                      PnlAt(self, Head(stock_prices), option_type, contracts,
                            premium_paid)))

\* The loop with each P&L put in front of the list: the order reversed.
RECURSIVE PnlLoopPrepend(_, _, _, _, _, _)
PnlLoopPrepend(self, stock_prices, option_type, contracts, premium_paid, pnl_values) ==
  IF stock_prices = <<>> THEN pnl_values
  ELSE PnlLoopPrepend(self, Tail(stock_prices), option_type, contracts, premium_paid,
                      <<PnlAt(self, Head(stock_prices), option_type, contracts,
                              premium_paid)>> \o pnl_values)

\* calculate_pnl_at_expiry with the order of the results reversed.
calculate_pnl_at_expiry_reversed(self, stock_prices, option_type, contracts) ==
  The({IF premium_paid = Raised THEN Raised
       ELSE PnlLoopPrepend(self, stock_prices, option_type, contracts, premium_paid,
                           <<>>) :
       premium_paid \in {FMul(FMul(option_price_of(self, option_type),
                                    FromInt(contracts)), Hundred)}})

\* calculate_pnl_at_expiry with the premium of one contract whatever contracts is.
calculate_pnl_at_expiry_single(self, stock_prices, option_type, contracts) ==
  The({IF premium_paid = Raised THEN Raised
       ELSE PnlLoop(self, stock_prices, option_type, contracts, premium_paid, <<>>) :
       premium_paid \in {FMul(option_price_of(self, option_type), Hundred)}})

\* An exception raised while pricing propagates to the caller.
calculate_pnl_at_expiry(self, stock_prices, option_type, contracts) ==
  The({IF premium_paid = Raised THEN Raised
       ELSE PnlLoop(self, stock_prices, option_type, contracts, premium_paid, <<>>) :
       premium_paid \in {FMul(FMul(option_price_of(self, option_type),
                                    FromInt(contracts)), Hundred)}})

\* ---------------------------------------------------------------------------
\* src/utils/visualization.py: the grids and curves behind the charts.
\* ---------------------------------------------------------------------------

\* An array argument: the type of its elements and the elements.  A list
\* or range of Python ints becomes an int64 array, anything with a float in
\* it a float64 array.
NdArray(dtype, values) == [dtype |-> dtype, values |-> values]

\* arr[i, j] = value as numpy stores it: a float64 array keeps the value, an
\* int64 array keeps it truncated toward zero and refuses NaN and infinity.
Stored(dtype, value) ==
  IF value = Raised THEN Raised
  ELSE IF dtype = "float64" THEN value
  ELSE IF IsFinite(value) THEN FromInt(ToInt(value))
  ELSE Raised

\* np.meshgrid gives S_mesh the element type of stock_prices, and
\* np.zeros_like(S_mesh) takes it over; np.zeros((rows, cols)) is float64.
GridDtype(fn, stock_prices) ==
  IF fn = "surface" THEN stock_prices.dtype ELSE "float64"

\* np.zeros: every cell 0, none written yet.
Cells(rows, stock_prices) ==
  (1..Len(rows.values)) \X (1..Len(stock_prices.values))

\* bs = BlackScholes(...) for the cell (i, j): the surface varies the
\* volatility by row, the heatmap the days to expiry (days / 365.0).
CellEngine(s, i, j) ==
  IF s.fn = "surface"
  THEN BlackScholes(s.stock_prices.values[j], s.strike_price, s.time_to_expiry,
                    s.risk_free_rate, s.rows.values[i])
  ELSE BlackScholes(s.stock_prices.values[j], s.strike_price,
                    FDiv(s.rows.values[i], FromInt(365)), s.risk_free_rate,
                    s.volatility)

\* The last element of the swept price axis.
LastSpot(stock_prices) == stock_prices.values[Len(stock_prices.values)]

\* stock_prices[0], the spot the entry premium is priced at.
PremiumSpot(stock_prices) == stock_prices.values[1]

\* pnl_values of one strike: intrinsic - initial_price for every swept price.
StrikeCurve(stock_prices, strike, option_type, initial_price) ==
  [k \in 1..Len(stock_prices.values) |->
     FSub(PyMax0(IF Lower(option_type) = "call"
                 THEN FSub(stock_prices.values[k], strike)
                 ELSE FSub(strike, stock_prices.values[k])),
          initial_price)]

\* initial_price of every strike, each priced once at the top of its pass of
\* the loop over strikes.
InitialPrices(stock_prices, strikes, time_to_expiry, volatility, risk_free_rate, option_type) ==
  [i \in 1..Len(strikes) |->
     option_price_of(BlackScholes(PremiumSpot(stock_prices), strikes[i], time_to_expiry,
                                  risk_free_rate, volatility),
                     option_type)]

\* The y-values of the traces of the figure, one per strike, in order.
\* stock_prices[0] of an empty axis is an IndexError in the first pass, and
\* an exception raised while pricing propagates.
create_multi_strike_pnl(stock_prices, strikes, time_to_expiry, volatility, risk_free_rate, option_type) ==
  IF strikes = <<>> THEN [status |-> "returned", val |-> <<>>]
  ELSE IF stock_prices.values = <<>> THEN [status |-> "raised", val |-> <<>>]
  ELSE The({IF \E i \in 1..Len(strikes) : initial_price[i] = Raised
            THEN [status |-> "raised", val |-> <<>>]
            ELSE [status |-> "returned",
                  val |-> [i \in 1..Len(strikes) |->
                             StrikeCurve(stock_prices, strikes[i], option_type,
                                         initial_price[i])]] :
            initial_price \in
              {InitialPrices(stock_prices, strikes, time_to_expiry, volatility,
                             risk_free_rate, option_type)}})

\* ---------------------------------------------------------------------------
\* src/utils/data_provider.py: DataProviderManager.
\* ---------------------------------------------------------------------------

\* self.providers, in the order the dictionary lists its keys.
providers  == <<"yfinance", "polygon", "alpaca">>
Registered == {providers[i] : i \in 1..Len(providers)}

\* The argument provider=None, and Python's None as a returned value.
NoProvider == "None"
None       == [kind |-> "None"]

\* A provider argument that is false in `provider or self.current_provider`:
\* None, and the empty string.
Falsy(provider) == provider \in {NoProvider, ""}

DataProviderManager(default_provider) ==
  [default_provider |-> default_provider, current_provider |-> default_provider]

\* set_provider without the membership test.
set_provider_unchecked(self, provider_name) ==
  [self EXCEPT !.current_provider = provider_name]

set_provider(self, provider_name) ==
  IF provider_name \in Registered
  THEN [self EXCEPT !.current_provider = provider_name]
  ELSE self

\* What a provider's get_stock_data(symbol) hands back when it does not raise:
\* its price record, or None.
Reply(name, symbol, behaviour) ==
  IF behaviour[name] = "data"
  THEN [kind |-> "dict", symbol |-> symbol, source |-> name, price |-> 150]
  ELSE None

\* The selection with current_provider, not default_provider, standing in for
\* a name that is no key.
SelectedProviderCurrent(self, provider) ==
  IF Falsy(provider) \/ provider \notin Registered THEN self.current_provider
  ELSE provider

\* provider_name = provider or self.current_provider, replaced by
\* default_provider when it is not a key of self.providers.
SelectedProvider(self, provider) ==
  LET provider_name == IF Falsy(provider) THEN self.current_provider
                       ELSE provider
  IN  IF provider_name \notin Registered THEN self.default_provider
      ELSE provider_name

\* for fallback_provider in self.providers: from the i-th key on.  calls is
\* the list of the provider calls made so far.
RECURSIVE FallbackLoop(_, _, _, _, _)
FallbackLoop(i, provider_name, symbol, behaviour, calls) ==
  IF i > Len(providers)
  THEN [calls |-> calls, status |-> "returned", val |-> None]
  ELSE IF providers[i] = provider_name
  THEN FallbackLoop(i + 1, provider_name, symbol, behaviour, calls)
  ELSE IF behaviour[providers[i]] = "raises"
  THEN FallbackLoop(i + 1, provider_name, symbol, behaviour,
                    Append(calls, <<providers[i], symbol>>))
  ELSE [calls |-> Append(calls, <<providers[i], symbol>>), status |-> "returned",
        val |-> Reply(providers[i], symbol, behaviour)]

\* The fallback loop without the test that skips the provider that failed.
RECURSIVE FallbackLoopAll(_, _, _, _, _)
FallbackLoopAll(i, provider_name, symbol, behaviour, calls) ==
  IF i > Len(providers)
  THEN [calls |-> calls, status |-> "returned", val |-> None]
  ELSE IF behaviour[providers[i]] = "raises"
  THEN FallbackLoopAll(i + 1, provider_name, symbol, behaviour,
                       Append(calls, <<providers[i], symbol>>))
  ELSE [calls |-> Append(calls, <<providers[i], symbol>>), status |-> "returned",
        val |-> Reply(providers[i], symbol, behaviour)]

\* get_stock_data whose fallback loop calls the failed provider again.
get_stock_data_retry(self, symbol, provider, behaviour) ==
  LET provider_name == SelectedProvider(self, provider)
  IN  IF provider_name \notin Registered
      THEN FallbackLoopAll(1, provider_name, symbol, behaviour, <<>>)
      ELSE IF behaviour[provider_name] = "raises"
      THEN FallbackLoopAll(1, provider_name, symbol, behaviour,
                           <<<<provider_name, symbol>>>>)
      ELSE [calls |-> <<<<provider_name, symbol>>>>, status |-> "returned",
            val |-> Reply(provider_name, symbol, behaviour)]

\* get_stock_data with the fallback tried whatever the selected provider did.
get_stock_data_eager(self, symbol, provider, behaviour) ==
  FallbackLoop(1, SelectedProvider(self, provider), symbol, behaviour,
               IF SelectedProvider(self, provider) \in Registered
               THEN <<<<SelectedProvider(self, provider), symbol>>>> ELSE <<>>)

\* get_stock_data with a None from the selected provider taken for a failure.
get_stock_data_none_fails(self, symbol, provider, behaviour) ==
  LET provider_name == SelectedProvider(self, provider)
  IN  IF provider_name \notin Registered
      THEN FallbackLoop(1, provider_name, symbol, behaviour, <<>>)
      ELSE IF behaviour[provider_name] # "data"
      THEN FallbackLoop(1, provider_name, symbol, behaviour,
                        <<<<provider_name, symbol>>>>)
      ELSE [calls |-> <<<<provider_name, symbol>>>>, status |-> "returned",
            val |-> Reply(provider_name, symbol, behaviour)]

\* behaviour[p] is what provider p does when its get_stock_data is called:
\* "data", "none" (it returns None) or "raises" (an Exception).  A selected
\* name that is no key of the dictionary raises KeyError inside the try.
get_stock_data(self, symbol, provider, behaviour) ==
  LET provider_name == SelectedProvider(self, provider)
  IN  IF provider_name \notin Registered
      THEN FallbackLoop(1, provider_name, symbol, behaviour, <<>>)
      ELSE IF behaviour[provider_name] = "raises"
      THEN FallbackLoop(1, provider_name, symbol, behaviour,
                        <<<<provider_name, symbol>>>>)
      ELSE [calls |-> <<<<provider_name, symbol>>>>, status |-> "returned",
            val |-> Reply(provider_name, symbol, behaviour)]

\* self.providers[self.current_provider]: the provider, or KeyError.
get_provider(self) ==
  IF self.current_provider \in Registered
  THEN [status |-> "returned", val |-> self.current_provider]
  ELSE [status |-> "raised", val |-> "KeyError"]

\* The data-access operations beside get_stock_data.
DataAccessOps ==
  {"get_historical_data", "calculate_historical_volatility", "get_market_overview",
   "get_options_chain", "search_stocks", "get_company_info", "get_risk_free_rate"}

\* hasattr(provider_obj, op): the methods the three provider classes define.
HasAttr(name, op) ==
  CASE name = "yfinance" -> TRUE
    [] name = "polygon"  -> op # "get_risk_free_rate"
    [] name = "alpaca"   -> op \in {"get_historical_data",
                                    "calculate_historical_volatility",
                                    "get_market_overview"}

\* What the operation returns when the provider lacks the method or the call
\* raised: None, {}, [] or 0.05.
DefaultResult(op) ==
  CASE op = "get_market_overview" -> [kind |-> "empty_dict"]
    [] op = "search_stocks"       -> [kind |-> "empty_list"]
    [] op = "get_risk_free_rate"  -> [kind |-> "float", val |-> Lit(5, -2)]
    [] OTHER                      -> None

\* What provider name's method op hands back when it does not raise.
ProviderResult(name, op, behaviour) ==
  IF behaviour[name] = "data"
  THEN [kind |-> "result", op |-> op, source |-> name]
  ELSE None

\* calculate_historical_volatility's fallback loop, from the i-th key on.
RECURSIVE VolatilityFallback(_, _, _, _)
VolatilityFallback(i, provider_name, behaviour, calls) ==
  IF i > Len(providers)
  THEN [calls |-> calls, val |-> None]
  ELSE IF providers[i] = provider_name
  THEN VolatilityFallback(i + 1, provider_name, behaviour, calls)
  ELSE IF behaviour[providers[i]] = "raises"
  THEN VolatilityFallback(i + 1, provider_name, behaviour, Append(calls, providers[i]))
  ELSE [calls |-> Append(calls, providers[i]),
        val |-> ProviderResult(providers[i], "calculate_historical_volatility",
                               behaviour)]

\* The try block of operation op on the provider selected, and what its
\* except clause does: calls lists the providers whose method was called.
TryProvider(op, provider_name, behaviour) ==
  IF provider_name \notin Registered
  THEN IF op = "calculate_historical_volatility"
       THEN VolatilityFallback(1, provider_name, behaviour, <<>>)
       ELSE [calls |-> <<>>, val |-> DefaultResult(op)]
  ELSE IF ~HasAttr(provider_name, op)
  THEN [calls |-> <<>>, val |-> DefaultResult(op)]
  ELSE IF behaviour[provider_name] = "raises"
  THEN IF op = "calculate_historical_volatility"
       THEN VolatilityFallback(1, provider_name, behaviour, <<provider_name>>)
       ELSE [calls |-> <<provider_name>>, val |-> DefaultResult(op)]
  ELSE [calls |-> <<provider_name>>, val |-> ProviderResult(provider_name, op, behaviour)]

\* A data-access operation that makes the provider it used the current one.
data_access_sticky(self, op, provider, behaviour) ==
  LET provider_name == SelectedProvider(self, provider)
      r == TryProvider(op, provider_name, behaviour)
  IN  [self |-> [self EXCEPT !.current_provider = provider_name],
       used |-> provider_name, calls |-> r.calls, status |-> "returned",
       val |-> r.val]

\* self.<op>(..., provider) for the operations of DataAccessOps: the manager
\* as the call leaves it, the name selected and what is returned.
data_access(self, op, provider, behaviour) ==
  LET provider_name == SelectedProvider(self, provider)
      r == TryProvider(op, provider_name, behaviour)
  IN  [self |-> self, used |-> provider_name, calls |-> r.calls,
       status |-> "returned", val |-> r.val]

\* ---------------------------------------------------------------------------
\* src/utils/polygon_utils.py: PolygonDataProvider._make_request.
\* ---------------------------------------------------------------------------

\* What requests.get and the response do: "ok" (a JSON body), "http_error"
\* (raise_for_status raises HTTPError), "connection_error" (requests.get raises
\* ConnectionError), "exception" (requests.get raises a plain Exception).
IsRequestException(http) == http \in {"http_error", "connection_error"}

\* An empty api_key stands for no key at all: not self.api_key.
_make_request(api_key, http) ==
  IF api_key = ""
  THEN [requested |-> FALSE, status |-> "returned", val |-> None]
  ELSE IF http = "ok"
  THEN [requested |-> TRUE, status |-> "returned", val |-> [kind |-> "json"]]
  ELSE IF IsRequestException(http)
  THEN [requested |-> TRUE, status |-> "returned", val |-> None]
  ELSE [requested |-> TRUE, status |-> "raised", val |-> None]

\* ---------------------------------------------------------------------------
\* The providers' own get_stock_data(symbol): yfinance_utils.py,
\* polygon_utils.py, alpaca_utils.py.  Each result is [status, val].
\* ---------------------------------------------------------------------------

\* return {...}: the price record of provider `name`.
Returned(v) == [status |-> "returned", val |-> v]
PriceRecord(name, symbol) == Reply(name, symbol, [p \in Registered |-> "data"])

\* The body of YFinanceDataProvider.get_stock_data inside its try: yf is what
\* yfinance does, "history" (rows), "empty" (no rows) or "exception".
YFinanceTry(symbol, yf) ==
  IF yf = "exception" THEN [status |-> "raised", val |-> None]
  ELSE IF yf = "empty" THEN Returned(None)
  ELSE Returned(PriceRecord("yfinance", symbol))

\* A provider method with its try/except removed: what the body does.
Uncaught(attempt) == attempt

\* except Exception as e: logger.error(...); return None
ExceptReturnNone(attempt) ==
  IF attempt.status = "raised" THEN Returned(None) ELSE attempt

YFinance_get_stock_data(symbol, yf) == ExceptReturnNone(YFinanceTry(symbol, yf))

\* The body of PolygonDataProvider.get_stock_data inside its try: two
\* requests, previous close and last trade; an exception leaving
\* _make_request leaves the body too.
PolygonTry(symbol, api_key, http1, http2) ==
  LET prev_data == _make_request(api_key, http1)
      current_data == _make_request(api_key, http2)
  IN  IF prev_data.status = "raised" THEN [status |-> "raised", val |-> None]
      ELSE IF prev_data.val = None THEN Returned(None)
      ELSE IF current_data.status = "raised" THEN [status |-> "raised", val |-> None]
      ELSE IF current_data.val = None THEN Returned(None)
      ELSE Returned(PriceRecord("polygon", symbol))

Polygon_get_stock_data(symbol, api_key, http1, http2) ==
  ExceptReturnNone(PolygonTry(symbol, api_key, http1, http2))

\* AlpacaDataProvider.get_stock_data: None without an API object, else the
\* body inside its try; api is "bars", "no_bars" or "exception".
AlpacaTry(symbol, api) ==
  IF api = "exception" THEN [status |-> "raised", val |-> None]
  ELSE IF api = "no_bars" THEN Returned(None)
  ELSE Returned(PriceRecord("alpaca", symbol))

Alpaca_get_stock_data(symbol, has_api, api) ==
  IF ~has_api THEN Returned(None)
  ELSE ExceptReturnNone(AlpacaTry(symbol, api))

\* get_stock_data of the provider registered as `name`, in the world u:
\* what yfinance, the HTTP layer and the Alpaca API do.
ProviderOutcome(name, symbol, u) ==
  CASE name = "yfinance" -> YFinance_get_stock_data(symbol, u.yf)
    [] name = "polygon"  -> Polygon_get_stock_data(symbol, u.api_key, u.http1, u.http2)
    [] name = "alpaca"   -> Alpaca_get_stock_data(symbol, u.has_api, u.api)

\* What the manager sees of each provider in the world u.
BehaviourIn(symbol, u) ==
  [p \in Registered |->
     IF ProviderOutcome(p, symbol, u).status = "raised" THEN "raises"
     ELSE IF ProviderOutcome(p, symbol, u).val = None THEN "none"
     ELSE "data"]

\* data_provider.py, get_current_price: data['price'] if data else None.
get_current_price(self, symbol, provider, u) ==
  LET r == get_stock_data(self, symbol, provider, BehaviourIn(symbol, u))
  IN  IF r.status = "raised" THEN [status |-> "raised", val |-> None]
      ELSE IF r.val = None THEN Returned(None)
      ELSE Returned([kind |-> "float", value |-> r.val.price])

\* ---------------------------------------------------------------------------
\* src/Home.py: calculate_metrics() reads the page's session state.
\* ---------------------------------------------------------------------------

Long  == "Long (Buy)"
Short == "Short (Sell)"

\* The object calculate_metrics builds: days / 365.0, percent / 100.0.
SessionObject(state) ==
  BlackScholes(state.stock_price, state.strike_price,
               FDiv(FromInt(state.days_to_expiry), FromInt(365)),
               FDiv(state.risk_free_rate, Hundred),
               FDiv(state.volatility, Hundred))

\* The adjustment gone too far: a short position also flips the sign of delta.
AdjustForShortWithDelta(position, option_metrics) ==
  IF position = Short
  THEN [option_metrics EXCEPT !.total_cost = FNeg(@), !.greeks.delta = FNeg(@)]
  ELSE option_metrics

\* if position == 'Short (Sell)': total_cost = -total_cost
AdjustForShort(position, option_metrics) ==
  IF position = Short
  THEN [option_metrics EXCEPT !.total_cost = FNeg(@)]
  ELSE option_metrics

(***************************************************************************)
(* The implied-volatility solver: calculate_implied_volatility.            *)
(***************************************************************************)

initial_guess  == Lit(2, -1)
tolerance      == Lit(1, -6)
max_iterations == 100
vol_floor      == Lit(1, -2)

\* The nested bs_price(vol): a fresh BlackScholes priced on the call's side.
bs_price(stock_price, strike_price, time_to_expiry, risk_free_rate, option_type, vol) ==
  LET bs0 == BlackScholes(stock_price, strike_price, time_to_expiry, risk_free_rate, vol)
  IN  IF Lower(option_type) = "call" THEN call_price(bs0) ELSE put_price(bs0)

\* bs_vega without the rescaling: the displayed vega, per percentage point.
bs_vega_displayed(stock_price, strike_price, time_to_expiry, risk_free_rate, vol) ==
  vega(BlackScholes(stock_price, strike_price, time_to_expiry, risk_free_rate, vol))

\* The nested bs_vega(vol): the displayed vega times 100.
bs_vega(stock_price, strike_price, time_to_expiry, risk_free_rate, vol) ==
  LET bs0 == BlackScholes(stock_price, strike_price, time_to_expiry, risk_free_rate, vol)
  IN  FMul(vega(bs0), Hundred)

\* The test with abs() lost: price_diff < tolerance.
ConvergedSigned(price_diff) == FLt(price_diff, tolerance)

\* abs(price_diff) < tolerance
Converged(price_diff) == FLt(FAbs(price_diff), tolerance)

\* The test with the wrong comparison: vega < 0.
VegaIsNegative(v) == FLt(v, Zero)

\* vega == 0
VegaIsZero(v) == FEq(v, Zero)

\* The update with the wrong sign: vol = vol + price_diff / vega.
NewtonUpdateAdd(vol, price_diff, v) == FAdd(vol, FDiv(price_diff, v))

\* vol = vol - price_diff / vega
NewtonUpdate(vol, price_diff, v) == FSub(vol, FDiv(price_diff, v))

\* if vol <= 0: vol = 0.01
KeepPositive(vol) == IF FLe(vol, Zero) THEN vol_floor ELSE vol

\* The range one too long: range(max_iterations + 1).
InRangeInclusive(i) == i <= max_iterations

\* for i in range(max_iterations): whether the iteration numbered i runs.
InRange(i) == i < max_iterations

(***************************************************************************)
(* Inputs.  The objects a caller constructs: the test fixture and its      *)
(* neighbours, strikes far out of the money, objects at expiry (T = 0),    *)
(* and the fixture with one field outside its domain.  Prices are in       *)
(* hundreds of dollars (the tests' S = 100, K = 105 is S = 1.00,           *)
(* K = 1.05): the formulas are homogeneous in (S, K), and at this scale    *)
(* the eight digits of the model resolve the solver's tolerance of 1e-6.   *)
(***************************************************************************)

MaxStrikeStep == 1
MaxVolStep    == 2
MaxContracts  == 2
MaxSweep      == 3

T30 == FDiv(FromInt(30), FromInt(365))

StockPrices == {Lit(100, -2), Lit(110, -2)}
Strikes     == {Lit(100 + 5 * k, -2) : k \in 0..MaxStrikeStep}
Vols        == {Lit(20 + 5 * j, -2) : j \in 0..MaxVolStep}
Rate        == Lit(5, -2)
FarStrikes  == {FromInt(2), FromInt(9), FromInt(10)}
Quotes      == {Lit(5, -2)}
OptionTypes == {"call", "put"}
Contracts   == 1..MaxContracts

\* The terminal prices of a P&L sweep, in the order the caller lists them:
\* 1.00, 0.95, 1.05, 0.90, ... (unsorted), cut at every length.
SweepPrice(i) ==
  IF i % 2 = 1 THEN Lit(100 + 5 * (i \div 2), -2) ELSE Lit(100 - 5 * (i \div 2), -2)
Sweep(n)    == [i \in 1..n |-> SweepPrice(i)]
PriceSweeps == {Sweep(n) : n \in 0..MaxSweep}

Fixture == BlackScholes(Lit(100, -2), Lit(105, -2), T30, Rate, Lit(20, -2))

ValidObjects ==
  {BlackScholes(S, K, T30, Rate, sigma) : S \in StockPrices, K \in Strikes, sigma \in Vols}
  \cup {BlackScholes(Lit(100, -2), K, T30, Rate, Lit(25, -2)) : K \in FarStrikes}

ExpiryObjects ==
  {BlackScholes(S, K, Zero, Rate, Lit(20, -2)) : S \in StockPrices, K \in Strikes}

InvalidObjects ==
  {[Fixture EXCEPT !.sigma = x] : x \in {Zero, Lit(-20, -2)}}
  \cup {[Fixture EXCEPT !.T = FNeg(T30)]}
  \cup {[Fixture EXCEPT !.S = x] : x \in {Zero, Lit(-100, -2)}}
  \cup {[Fixture EXCEPT !.K = x] : x \in {Zero, Lit(-105, -2)}}

Objects == ValidObjects \cup ExpiryObjects \cup InvalidObjects

\* The option ten strikes out of the money at 20% volatility: d1 is near -40.
DeepOutOfTheMoney ==
  BlackScholes(Lit(100, -2), FromInt(10), T30, Rate, Lit(20, -2))

\* The objects the engine's own calls are made on: at, in and out of the
\* money, far out of the money, at expiry and with a parameter out of domain.
EngineObjects ==
  {BlackScholes(Lit(100, -2), K, T30, Rate, sigma) : K \in Strikes, sigma \in Vols}
  \cup {BlackScholes(Lit(110, -2), Lit(100, -2), T30, Rate, Lit(20, -2))}
  \cup {DeepOutOfTheMoney}
  \cup {BlackScholes(Lit(100, -2), Lit(105, -2), Zero, Rate, Lit(20, -2))}
  \cup {[Fixture EXCEPT !.sigma = Zero], [Fixture EXCEPT !.K = Zero],
        [Fixture EXCEPT !.S = Lit(-100, -2)]}

\* What the page's widgets are set to: prices, volatility in percent, side,
\* position; the first value of each is the default of the session state.
StockInputs      == {Lit(150, -2), Lit(100, -2)}
StrikeInputs     == {Lit(155, -2), Lit(105, -2)}
DaysInputs       == {30, 60}
VolatilityInputs == {FromInt(25 + 5 * j) : j \in 0..MaxVolStep}
OptionTypeChoices == {"Call", "Put"}
Positions        == {Long, Short}

SessionDefaults ==
  [stock_price |-> Lit(150, -2), strike_price |-> Lit(155, -2), days_to_expiry |-> 30,
   volatility |-> FromInt(25), risk_free_rate |-> FromInt(5), contracts |-> 1,
   option_type |-> "Call", position |-> Long]

\* The market-data side: symbols, the provider argument (absent, registered,
\* unknown), what each provider does when called, and the HTTP layer.
Symbols          == {"AAPL", "MSFT"}
Invalid          == "invalid"
ProviderNames    == Registered \cup {Invalid}
ProviderArgs     == {NoProvider, "", "polygon", Invalid}
DefaultProviders == {"yfinance", "alpaca", Invalid}
Behaviours       == [Registered -> {"data", "none", "raises"}]
ApiKeys          == {"", "test_key"}
HttpOutcomes     == {"ok", "http_error", "connection_error", "exception"}

\* What the libraries under the providers do: yfinance, the HTTP layer under
\* Polygon (with or without a key) and the Alpaca API (present or not).
YfOutcomes     == {"history", "empty", "exception"}
AlpacaOutcomes == {"bars", "no_bars", "exception"}

AllWell ==
  [yf |-> "history", api_key |-> "test_key", http1 |-> "ok", http2 |-> "ok",
   has_api |-> TRUE, api |-> "bars"]

\* The worlds: one library at a time departs from AllWell, or all three fail.
Worlds ==
  {[AllWell EXCEPT !.yf = y] : y \in YfOutcomes}
  \cup {[AllWell EXCEPT !.api_key = k, !.http1 = h] : k \in ApiKeys, h \in HttpOutcomes}
  \cup {[AllWell EXCEPT !.http2 = h] : h \in HttpOutcomes}
  \cup {[AllWell EXCEPT !.has_api = a, !.api = x] : a \in BOOLEAN, x \in AlpacaOutcomes}
  \cup {[AllWell EXCEPT !.yf = "exception", !.http1 = "exception", !.api = "exception"]}

(***************************************************************************)
(* State.                                                                  *)
(*   bs   the BlackScholes object the caller holds (its five fields)       *)
(*   out  the last completed call: its name, side, how it ended, its value *)
(*   iv   the frame of calculate_implied_volatility: its arguments, its    *)
(*        locals vol, i, price_diff, vega, its position pc, and, for the   *)
(*        properties, how the loop was left (exit), the vol the last       *)
(*        residual was measured at (vol_in), the divisors of the divisions *)
(*        price_diff / vega executed (divisors) and the volatility the     *)
(*        market price was generated with (gen_sigma, NaN for a quote) and *)
(*        the number of evaluations of bs_price so far (evals)             *)
(***************************************************************************)
VARIABLES bs, out, iv, session, manager, fetch, sweep

vars == <<bs, out, iv, session, manager, fetch, sweep>>

\* What the engine and the solver never touch: the page's session state, and
\* the market-data side.
page == <<session, sweep>>
data == <<manager, fetch>>

NoOut == [op |-> "none", option_type |-> "", status |-> "none", val |-> Zero]

Result(op, option_type, v) ==
  [op |-> op, option_type |-> option_type,
   status |-> IF v = Raised THEN "raised" ELSE "returned", val |-> v]

\* The last completed call on the market-data side; none yet.
NoFetch == [op |-> "none", status |-> "none"]

IvIdle ==
  [pc |-> "idle", market_price |-> Zero, stock_price |-> Zero, strike_price |-> Zero,
   time_to_expiry |-> Zero, risk_free_rate |-> Zero, option_type |-> "",
   vol |-> Zero, i |-> 0, price_diff |-> Zero, vega |-> Zero,
   exit |-> "none", vol_in |-> Zero, divisors |-> {}, gen_sigma |-> NaN,
   evals |-> 0]

\* No chart computed yet.
NoSweep ==
  [fn |-> "none", pc |-> "idle", stock_prices |-> NdArray("float64", <<>>),
   rows |-> NdArray("float64", <<>>), option_type |-> "", strike_price |-> Zero,
   time_to_expiry |-> Zero, risk_free_rate |-> Zero, volatility |-> Zero,
   dtype |-> "float64", i |-> 1, j |-> 1, grid |-> <<>>, writes |-> <<>>,
   strikes |-> <<>>, curves |-> <<>>]

Init ==
  /\ bs = Fixture
  /\ out = NoOut
  /\ iv = IvIdle
  /\ session = SessionDefaults
  /\ manager = DataProviderManager("yfinance")
  /\ fetch = NoFetch
  /\ sweep = NoSweep

\* bs = BlackScholes(...)
Construct(o) ==
  /\ iv.pc # "loop"
  /\ bs' = o
  /\ out' = NoOut
  /\ iv' = IvIdle
  /\ UNCHANGED <<page, data>>

\* A call of a method of bs: the result is returned, or the exception raised
\* while computing it propagates to the caller.
MethodCall(op, option_type, v) ==
  /\ iv.pc # "loop"
  /\ out' = Result(op, option_type, v)
  /\ iv' = IvIdle
  /\ UNCHANGED <<bs, page, data>>

CallPrice == MethodCall("call_price", "", call_price(bs))
PutPrice  == MethodCall("put_price", "", put_price(bs))
Delta(option_type) == MethodCall("delta", option_type, delta(bs, option_type))
Gamma     == MethodCall("gamma", "", gamma(bs))
Vega      == MethodCall("vega", "", vega(bs))

\* The last completed call with the arguments it was given; raised tells
\* whether an exception left the call instead of a value.
ResultWith(op, option_type, args, raised, v) ==
  [op |-> op, option_type |-> option_type, args |-> args,
   status |-> IF raised THEN "raised" ELSE "returned", val |-> v]

\* A method that clears self.r while it computes its result.
MethodCallClearingRate(op, option_type, args, raised, v) ==
  /\ iv.pc # "loop"
  /\ out' = ResultWith(op, option_type, args, raised, v)
  /\ iv' = IvIdle
  /\ bs' = [bs EXCEPT !.r = Zero]
  /\ UNCHANGED <<page, data>>

\* A call of a method of bs that takes arguments besides the side.
MethodCallWith(op, option_type, args, raised, v) ==
  /\ iv.pc # "loop"
  /\ out' = ResultWith(op, option_type, args, raised, v)
  /\ iv' = IvIdle
  /\ UNCHANGED <<bs, page, data>>

Theta(option_type) == MethodCall("theta", option_type, theta(bs, option_type))
Rho(option_type)   == MethodCall("rho", option_type, rho(bs, option_type))

\* No argument besides the side.
NoArgs == [contracts |-> 0]

GetAllGreeks(option_type) ==
  \E g \in {get_all_greeks(bs, option_type)} :
    MethodCallWith("get_all_greeks", option_type, NoArgs,
                   Raised \in {g.delta, g.gamma, g.theta, g.vega, g.rho}, g)

OptionMetrics(option_type, contracts) ==
  \E m \in {calculate_option_metrics(bs, option_type, contracts)} :
    MethodCallWith("calculate_option_metrics", option_type,
                   [contracts |-> contracts], m = Raised, m)

\* Whether a call that returns a list ended in an exception: a list and a
\* float are compared by what they print as, for TLC compares no sequence
\* with a record.
ListCallRaised(v) == ToString(v) = ToString(Raised)

PnlAtExpiry(stock_prices, option_type, contracts) ==
  \E pnl_values \in {calculate_pnl_at_expiry(bs, stock_prices, option_type,
                                              contracts)} :
    MethodCallWith("calculate_pnl_at_expiry", option_type,
                   [stock_prices |-> stock_prices, contracts |-> contracts],
                   ListCallRaised(pnl_values), pnl_values)

\* The frame of calculate_implied_volatility(market_price, ...) on entry.
IvEntry(market_price, option_type, gen_sigma) ==
  [IvIdle EXCEPT !.pc = "loop", !.market_price = market_price,
                 !.stock_price = bs.S, !.strike_price = bs.K,
                 !.time_to_expiry = bs.T, !.risk_free_rate = bs.r,
                 !.option_type = option_type, !.vol = initial_guess,
                 !.gen_sigma = gen_sigma]

\* calculate_implied_volatility(bs.call_price(), S, K, T, r, 'call') and the
\* same for a put, as the tests call it: the market price is the one bs gave.
IVStartFromPrice ==
  /\ iv.pc # "loop"
  /\ out.op \in {"call_price", "put_price"}
  /\ out.status = "returned"
  /\ iv' = IvEntry(out.val, IF out.op = "call_price" THEN "call" ELSE "put", bs.sigma)
  /\ out' = NoOut
  /\ UNCHANGED <<bs, page, data>>

\* calculate_implied_volatility(q, S, K, T, r, option_type) for a quoted price q.
IVStartQuote(q, option_type) ==
  /\ iv.pc # "loop"
  /\ iv' = IvEntry(q, option_type, NaN)
  /\ out' = NoOut
  /\ UNCHANGED <<bs, page, data>>

\* The call returns vol (or raises, when vol is Raised) from frame f.
Leave(f, exit, vol) ==
  /\ iv' = [f EXCEPT !.pc = IF vol = Raised THEN "raised" ELSE "returned",
                     !.exit = exit, !.vol = vol]
  /\ out' = Result("calculate_implied_volatility", f.option_type, vol)

\* The end of an iteration that updated vol: the next one, or the return after
\* the loop when the range is exhausted.
Advance(f, next_vol) ==
  IF InRange(f.i + 1)
  THEN /\ iv' = [f EXCEPT !.vol = next_vol, !.i = @ + 1]
       /\ out' = out
  ELSE Leave([f EXCEPT !.i = @ + 1], "exhausted", next_vol)

\* Lines 181-189: the vega test, the Newton update and the clamp.
UpdateWith(f, v) ==
  IF VegaIsZero(v) THEN Leave([f EXCEPT !.vega = v], "zero_vega", f.vol)
  ELSE \E next_vol \in {KeepPositive(NewtonUpdate(f.vol, f.price_diff, v))} :
         Advance([f EXCEPT !.vega = v, !.divisors = @ \cup {v}], next_vol)

\* Lines 176-179: the residual and the convergence test.
IterateWith(f, price_diff) ==
  IF price_diff = Raised
  THEN Leave([f EXCEPT !.vol_in = f.vol], "exception", Raised)
  ELSE IF Converged(price_diff)
  THEN Leave([f EXCEPT !.price_diff = price_diff, !.vol_in = f.vol],
             "converged", f.vol)
  ELSE \E v \in {bs_vega(f.stock_price, f.strike_price, f.time_to_expiry,
                           f.risk_free_rate, f.vol)} :
         UpdateWith([f EXCEPT !.price_diff = price_diff, !.vol_in = f.vol], v)

\* One iteration of the for loop and, when it is the last, the return after it.
IVIterate ==
  /\ iv.pc = "loop"
  /\ \E price_diff \in {FSub(bs_price(iv.stock_price, iv.strike_price,
                                       iv.time_to_expiry, iv.risk_free_rate,
                                       iv.option_type, iv.vol),
                              iv.market_price)} :
       IterateWith([iv EXCEPT !.evals = @ + 1], price_diff)
  /\ UNCHANGED <<bs, page, data>>

Next ==
  \/ \E o \in Objects : Construct(o)
  \/ CallPrice
  \/ PutPrice
  \/ \E t \in OptionTypes : Delta(t)
  \/ Gamma
  \/ Vega
  \/ IVStartFromPrice
  \/ \E q \in Quotes, t \in OptionTypes : IVStartQuote(q, t)
  \/ IVIterate

Spec == Init /\ [][Next]_vars

\* calculate_metrics() from the call of calculate_option_metrics on: the
\* exception propagates, or (bs, option_metrics) is returned.
MetricsReturn(state, o, option_metrics) ==
  IF option_metrics = Raised
  THEN /\ out' = ResultWith("calculate_metrics", state.option_type, state, TRUE,
                            option_metrics)
       /\ bs' = bs
  ELSE /\ out' = ResultWith("calculate_metrics", state.option_type, state, FALSE,
                            AdjustForShort(state.position, option_metrics))
       /\ bs' = o

\* One run of the page's script with the session state as the widgets left
\* it: calculate_metrics() is called on every run (line 388).
ScriptRun(state) ==
  /\ iv.pc # "loop"
  /\ session' = state
  /\ \E o \in {SessionObject(state)} :
       \E option_metrics \in {calculate_option_metrics(o, Lower(state.option_type),
                                                       state.contracts)} :
         MetricsReturn(state, o, option_metrics)
  /\ iv' = IvIdle
  /\ UNCHANGED <<sweep, data>>

\* The session states one change of one widget leads to: each widget stores
\* its value in the session state.
WidgetChanges(state) ==
  {[state EXCEPT !.stock_price = x] : x \in StockInputs}
  \cup {[state EXCEPT !.strike_price = x] : x \in StrikeInputs}
  \cup {[state EXCEPT !.days_to_expiry = d] : d \in DaysInputs}
  \cup {[state EXCEPT !.volatility = x] : x \in VolatilityInputs}
  \cup {[state EXCEPT !.contracts = n] : n \in Contracts}
  \cup {[state EXCEPT !.option_type = t] : t \in OptionTypeChoices}
  \cup {[state EXCEPT !.position = p] : p \in Positions}

\* The user changes a widget (or none: the first run, the Calculate button)
\* and the script runs.
HomeNext == \E state \in WidgetChanges(session) : ScriptRun(state)

HomeSpec == Init /\ [][HomeNext]_vars

\* data_provider = DataProviderManager(default_provider)
NewManager(default_provider) ==
  /\ manager' = DataProviderManager(default_provider)
  /\ fetch' = NoFetch
  /\ UNCHANGED <<bs, out, iv, page>>

\* manager.set_provider(provider_name): before is current_provider on entry.
SetProvider(provider_name) ==
  /\ manager' = set_provider(manager, provider_name)
  /\ fetch' = [op |-> "set_provider", provider_name |-> provider_name,
               before |-> manager.current_provider, status |-> "returned"]
  /\ UNCHANGED <<bs, out, iv, page>>

\* manager.get_stock_data(symbol, provider) while the providers behave as
\* behaviour says.
GetStockData(symbol, provider, behaviour) ==
  /\ \E r \in {get_stock_data(manager, symbol, provider, behaviour)} :
       fetch' = [op |-> "get_stock_data", symbol |-> symbol, provider |-> provider,
                 behaviour |-> behaviour, calls |-> r.calls, status |-> r.status,
                 val |-> r.val, used |-> SelectedProvider(manager, provider)]
  /\ UNCHANGED <<manager, bs, out, iv, page>>

\* manager.<op>(..., provider) for an operation of DataAccessOps while the
\* providers behave as behaviour says.
DataAccess(op, provider, behaviour) ==
  /\ \E r \in {data_access(manager, op, provider, behaviour)} :
       /\ manager' = r.self
       /\ fetch' = [op |-> op, provider |-> provider, behaviour |-> behaviour,
                    used |-> r.used, calls |-> r.calls, status |-> r.status,
                    val |-> r.val]
  /\ UNCHANGED <<bs, out, iv, page>>

\* manager.get_provider()
GetProvider ==
  /\ \E r \in {get_provider(manager)} :
       fetch' = [op |-> "get_provider", status |-> r.status, val |-> r.val]
  /\ UNCHANGED <<manager, bs, out, iv, page>>

\* PolygonDataProvider(api_key)._make_request(endpoint) while the HTTP layer
\* does what http says.
MakeRequest(api_key, http) ==
  /\ \E r \in {_make_request(api_key, http)} :
       fetch' = [op |-> "_make_request", api_key |-> api_key, http |-> http,
                 requested |-> r.requested, status |-> r.status, val |-> r.val]
  /\ UNCHANGED <<manager, bs, out, iv, page>>

\* provider.get_stock_data(symbol) on the provider registered as name.
ProviderGetStockData(name, symbol, u) ==
  /\ \E r \in {ProviderOutcome(name, symbol, u)} :
       fetch' = [op |-> "provider_get_stock_data", name |-> name, symbol |-> symbol,
                 world |-> u, status |-> r.status, val |-> r.val]
  /\ UNCHANGED <<manager, bs, out, iv, page>>

\* round(x, 2) of a dollar amount; amounts are held in hundreds of dollars, so
\* the cent is the fourth decimal.
RoundCents(x) == FDiv(FromInt(RoundToInt(FMul(x, FromInt(10000)))), FromInt(10000))

\* Home.py, the Get Live Price button: the price fetched is stored with a
\* strike 5% above it, or an error is shown and nothing is stored.
GetLivePrice(symbol, u) ==
  /\ \E r \in {get_stock_data(manager, symbol, NoProvider, BehaviourIn(symbol, u))} :
       /\ fetch' = [op |-> "get_live_price", symbol |-> symbol, world |-> u,
                    status |-> r.status, val |-> r.val, before |-> session,
                    shown |-> IF r.status = "raised" THEN "traceback"
                              ELSE IF r.val = None THEN "error" ELSE "success"]
       /\ session' =
            IF r.status = "raised" \/ r.val = None THEN session
            ELSE [session EXCEPT
                    !.stock_price = Lit(r.val.price, -2),
                    !.strike_price = RoundCents(FMul(Lit(r.val.price, -2), Lit(105, -2)))]
  /\ UNCHANGED <<manager, bs, out, iv, sweep>>

\* get_current_price(symbol, provider) on the global manager.
GetCurrentPrice(symbol, provider, u) ==
  /\ \E r \in {get_current_price(manager, symbol, provider, u)} :
       fetch' = [op |-> "get_current_price", symbol |-> symbol, provider |-> provider,
                 world |-> u, status |-> r.status, val |-> r.val]
  /\ UNCHANGED <<manager, bs, out, iv, page>>

ProviderNext ==
  \/ \E d \in DefaultProviders : NewManager(d)
  \/ \E n \in ProviderNames : SetProvider(n)
  \/ \E y \in Symbols, p \in ProviderArgs, b \in Behaviours : GetStockData(y, p, b)
  \/ \E o \in DataAccessOps, p \in ProviderArgs, b \in Behaviours : DataAccess(o, p, b)
  \/ GetProvider
  \/ \E k \in ApiKeys, h \in HttpOutcomes : MakeRequest(k, h)

ProviderSpec == Init /\ [][ProviderNext]_vars

\* The providers themselves under the manager: what reaches the callers of
\* get_stock_data when the libraries fail.
FetchNext ==
  \/ \E d \in DefaultProviders : NewManager(d)
  \/ \E n \in ProviderNames : SetProvider(n)
  \/ \E n \in Registered, y \in Symbols, u \in Worlds : ProviderGetStockData(n, y, u)
  \/ \E y \in Symbols, p \in ProviderArgs, u \in Worlds : GetCurrentPrice(y, p, u)
  \/ \E y \in Symbols, u \in Worlds : GetLivePrice(y, u)

FetchSpec == Init /\ [][FetchNext]_vars

\* create_3d_option_surface / create_time_decay_heatmap are called: the grid
\* is allocated and the loops are entered at cell (0, 0), or fall through
\* when an axis is empty.
SweepStart(fn, stock_prices, rows, option_type) ==
  /\ sweep.pc # "loop"
  /\ sweep' = [NoSweep EXCEPT
                 !.fn = fn,
                 !.pc = IF Cells(rows, stock_prices) = {} THEN "returned" ELSE "loop",
                 !.stock_prices = stock_prices, !.rows = rows,
                 !.option_type = option_type, !.strike_price = Lit(105, -2),
                 !.time_to_expiry = T30, !.risk_free_rate = Rate,
                 !.volatility = Lit(20, -2),
                 !.dtype = GridDtype(fn, stock_prices),
                 !.grid = [c \in Cells(rows, stock_prices) |-> Zero],
                 !.writes = [c \in Cells(rows, stock_prices) |-> 0]]
  /\ UNCHANGED <<bs, out, iv, session, data>>

\* One pass of the inner loop body: option_prices[i, j] = bs.call_price() or
\* bs.put_price(), then on to the next column, or the next row.
SweepCell ==
  /\ sweep.pc = "loop"
  /\ \E v \in {Stored(sweep.dtype,
                      option_price_of(CellEngine(sweep, sweep.i, sweep.j),
                                      sweep.option_type))} :
       sweep' =
         IF v = Raised THEN [sweep EXCEPT !.pc = "raised"]
         ELSE [sweep EXCEPT
                 !.grid[<<sweep.i, sweep.j>>] = v,
                 !.writes[<<sweep.i, sweep.j>>] = @ + 1,
                 !.j = IF sweep.j < Len(sweep.stock_prices.values) THEN @ + 1 ELSE 1,
                 !.i = IF sweep.j < Len(sweep.stock_prices.values) THEN @ ELSE @ + 1,
                 !.pc = IF sweep.j = Len(sweep.stock_prices.values)
                           /\ sweep.i = Len(sweep.rows.values)
                        THEN "returned" ELSE "loop"]
  /\ UNCHANGED <<bs, out, iv, session, data>>

\* create_multi_strike_pnl(stock_prices, strikes, ...) in one step.
MultiStrikePnl(stock_prices, strikes, option_type) ==
  /\ sweep.pc # "loop"
  /\ \E r \in {create_multi_strike_pnl(stock_prices, strikes, T30, Lit(20, -2), Rate,
                                       option_type)} :
       sweep' = [NoSweep EXCEPT
                   !.fn = "multi_strike", !.pc = r.status,
                   !.stock_prices = stock_prices, !.strikes = strikes,
                   !.option_type = option_type, !.time_to_expiry = T30,
                   !.risk_free_rate = Rate, !.volatility = Lit(20, -2),
                   !.curves = r.val]
  /\ UNCHANGED <<bs, out, iv, session, data>>

\* The arrays the charts are drawn over: prices as floats (np.linspace) or
\* as whole numbers, volatilities, and days to expiry (np.arange).
MaxAxis == 2

PriceAxes ==
  {NdArray("float64", [j \in 1..n |-> Lit(100 + 10 * (j - 1), -2)]) : n \in 0..MaxAxis}
  \cup {NdArray("int64", [j \in 1..n |-> FromInt(j)]) : n \in 1..MaxAxis}
VolAxes ==
  {NdArray("float64", [i \in 1..n |-> Lit(20 + 10 * (i - 1), -2)]) : n \in 0..MaxAxis}
DayAxes ==
  {NdArray("int64", [i \in 1..n |-> FromInt(30 * i)]) : n \in 0..MaxAxis}

\* strikes, as the page lists them around the stock price.
StrikeLists == {[i \in 1..n |-> Lit(100 + 5 * (i - 1), -2)] : n \in 0..MaxAxis}

SweepNext ==
  \/ \E p \in PriceAxes, v \in VolAxes, t \in OptionTypes : SweepStart("surface", p, v, t)
  \/ \E p \in PriceAxes, d \in DayAxes, t \in OptionTypes : SweepStart("heatmap", p, d, t)
  \/ SweepCell
  \/ \E p \in PriceAxes, k \in StrikeLists, t \in OptionTypes : MultiStrikePnl(p, k, t)

SweepSpec == Init /\ [][SweepNext]_vars

\* Home.py, the P&L chart: calculate_pnl_at_expiry over a range of terminal
\* prices that np.linspace lists in ascending order, here 0.95, 1.00, 1.05, ...
MaxRange == 4

LinSpace(n)  == [i \in 1..n |-> Lit(90 + 5 * i, -2)]
ChartRanges  == {LinSpace(n) : n \in 2..MaxRange}

ChartNext ==
  \/ \E o \in EngineObjects : Construct(o)
  \/ \E p \in ChartRanges \cup {Sweep(MaxSweep)}, t \in OptionTypes, n \in Contracts :
       PnlAtExpiry(p, t, n)

ChartSpec == Init /\ [][ChartNext]_vars

\* The valuation engine alone: an object and every call its class offers.
EngineNext ==
  \/ \E o \in EngineObjects : Construct(o)
  \/ CallPrice
  \/ PutPrice
  \/ \E t \in OptionTypes : Delta(t)
  \/ Gamma
  \/ \E t \in OptionTypes : Theta(t)
  \/ Vega
  \/ \E t \in OptionTypes : Rho(t)
  \/ \E t \in OptionTypes : GetAllGreeks(t)
  \/ \E t \in OptionTypes, n \in Contracts : OptionMetrics(t, n)
  \/ \E p \in PriceSweeps, t \in OptionTypes, n \in Contracts : PnlAtExpiry(p, t, n)

EngineSpec == Init /\ [][EngineNext]_vars

\* The loop of the solver is not abandoned: a started call runs on.  This is
\* weak fairness of IVIterate, with ENABLED <<IVIterate>>_vars written as the
\* guard of the action, iv.pc = "loop".
FairSpec == Spec /\ ([]<>(iv.pc # "loop") \/ []<><<IVIterate>>_vars)

(***************************************************************************)
(* Properties.                                                             *)
(***************************************************************************)

\* The domain of the closed-form formulas: S > 0, K > 0, T > 0, sigma > 0.
ValidParams(self) ==
  /\ FLt(Zero, self.S)
  /\ FLt(Zero, self.K)
  /\ FLt(Zero, self.T)
  /\ FLt(Zero, self.sigma)

Between(lo, x, hi) == FLe(lo, x) /\ FLe(x, hi)

\* C2: for valid parameters delta('call') lies in [0, 1], delta('put') lies in
\* [-1, 0], and the put delta is the call delta of the same object minus one.
DeltaRange ==
  (out.op = "delta" /\ ValidParams(bs)) =>
     /\ out.status = "returned"
     /\ out.option_type = "call" => Between(Zero, out.val, One)
     /\ out.option_type = "put" =>
          /\ Between(FNeg(One), out.val, Zero)
          /\ out.val = FSub(norm_cdf(_d1(bs)), One)

\* A put delta strictly inside (-1, 0) was returned for a valid object.
DeltaRangeWitness ==
  /\ out.op = "delta"
  /\ out.option_type = "put"
  /\ ValidParams(bs)
  /\ FLt(FNeg(One), out.val)
  /\ FLt(out.val, Zero)

\* The calls of the valuation engine that return a price or a Greek.
EngineOps == {"call_price", "put_price", "delta", "gamma", "vega"}

\* A domain violation: sigma <= 0, T < 0, S <= 0 or K <= 0.
DomainViolation(self) ==
  \/ FLe(self.sigma, Zero)
  \/ FLt(self.T, Zero)
  \/ FLe(self.S, Zero)
  \/ FLe(self.K, Zero)

\* C3: an object built with a domain violation (sigma <= 0, T < 0, S <= 0 or
\* K <= 0) never yields a numeric result, NaN and infinity included, from a
\* price or a Greek: the call is rejected with a failure.
DomainViolationRejected ==
  (out.op \in EngineOps /\ DomainViolation(bs)) => out.status = "raised"

\* max(0, x)
Intrinsic(x) == IF FLt(x, Zero) THEN Zero ELSE x

\* C4: at expiry (T = 0) call_price() returns max(0, S - K) and put_price()
\* returns max(0, K - S) for every S, K > 0, S = K included.
ExpiryIntrinsicValue ==
  (bs.T = Zero /\ FLt(Zero, bs.S) /\ FLt(Zero, bs.K) /\ FLt(Zero, bs.sigma)) =>
     /\ out.op = "call_price" =>
          out.status = "returned" /\ out.val = Intrinsic(FSub(bs.S, bs.K))
     /\ out.op = "put_price" =>
          out.status = "returned" /\ out.val = Intrinsic(FSub(bs.K, bs.S))

\* The solver has measured a residual: an iteration has run its first lines.
Measured == iv.pc = "returned" \/ (iv.pc = "loop" /\ iv.i > 0)

\* The state of the solver stays within the cap of 100 iterations, and the
\* return after the loop hands back the estimate of the last update.
IvWithinCap ==
  /\ iv.i <= 100
  /\ iv.pc = "loop" => iv.i < 100
  /\ iv.exit = "exhausted" =>
       /\ iv.i = 100
       /\ iv.pc = "returned"
       /\ out.op = "calculate_implied_volatility"
       /\ out.status = "returned"
       /\ out.val = iv.vol
       /\ iv.vol = KeepPositive(FSub(iv.vol_in, FDiv(iv.price_diff, iv.vega)))

\* C5: calculate_implied_volatility always terminates: it runs at most 100
\* iterations, and when none converges it returns the current estimate as an
\* ordinary value; non-convergence is never raised.
IvTerminates ==
  /\ []IvWithinCap
  /\ (iv.pc = "loop") ~> (iv.pc \in {"returned", "raised"})

\* A call ran all 100 iterations without converging and returned a number.
IvExhaustedWitness ==
  /\ iv.exit = "exhausted"
  /\ iv.i = 100
  /\ out.status = "returned"
  /\ IsFinite(out.val)

\* modelPrice(sigma) - marketPrice at the sigma the frame last measured at.
Residual(f) ==
  FSub(bs_price(f.stock_price, f.strike_price, f.time_to_expiry,
                f.risk_free_rate, f.option_type, f.vol_in),
       f.market_price)

\* |x| < 1e-6
WithinTolerance(x) == FLt(FAbs(x), Lit(1, -6))

\* C6: an iteration ends the call successfully exactly when
\* |modelPrice(sigma) - marketPrice| < 1e-6 at the current sigma, and the value
\* returned through that exit is the sigma the residual was measured at.
ConvergedExit ==
  Measured =>
     /\ iv.price_diff = Residual(iv)
     /\ WithinTolerance(iv.price_diff) <=> iv.exit = "converged"
     /\ iv.exit = "converged" =>
          /\ iv.pc = "returned"
          /\ out.status = "returned"
          /\ out.val = iv.vol_in

\* A call converged after at least one Newton update.
ConvergedExitWitness ==
  /\ iv.exit = "converged"
  /\ iv.i > 0
  /\ out.val = iv.vol_in
  /\ WithinTolerance(iv.price_diff)

\* C7: when the vega at the current sigma is exactly zero and the residual test
\* has not passed, the loop ends at once and the current sigma is returned
\* unchanged; price_diff / vega is never executed with a zero divisor.
ZeroVegaExit ==
  /\ \A v \in iv.divisors : ~FEq(v, Zero)
  /\ (Measured /\ iv.exit # "converged") =>
       /\ iv.vega = bs_vega(iv.stock_price, iv.strike_price, iv.time_to_expiry,
                            iv.risk_free_rate, iv.vol_in)
       /\ FEq(iv.vega, Zero) <=> iv.exit = "zero_vega"
  /\ iv.exit = "zero_vega" =>
       /\ iv.pc = "returned"
       /\ out.status = "returned"
       /\ out.val = iv.vol_in

\* A call left the loop on a zero vega after at least one Newton update.
ZeroVegaExitWitness ==
  /\ iv.exit = "zero_vega"
  /\ iv.i > 0
  /\ FEq(iv.vega, Zero)
  /\ out.val = iv.vol_in

\* The solver was called with inputs in the domain: S, K, T > 0 and a market
\* price that is a positive finite number.
IvValidInputs ==
  /\ FLt(Zero, iv.stock_price)
  /\ FLt(Zero, iv.strike_price)
  /\ FLt(Zero, iv.time_to_expiry)
  /\ FLt(Zero, iv.market_price)
  /\ IsFinite(iv.market_price)

\* C8: sigma is strictly positive at the start of every iteration and on
\* return: an update that gives sigma <= 0 is replaced by the floor 0.01.
SigmaStaysPositive ==
  (iv.pc \in {"loop", "returned"} /\ IvValidInputs) => FLt(Zero, iv.vol)

\* C9: the solver returns a finite number, never NaN or an infinity, when it
\* stops on a zero vega and when it reaches the cap of 100 iterations.
FiniteEstimate ==
  (iv.pc = "returned" /\ iv.exit \in {"zero_vega", "exhausted"} /\ IvValidInputs) =>
     out.status = "returned" /\ IsFinite(out.val)

\* The market price of the call is the Black-Scholes price of valid parameters
\* (S, K, T, r, gen_sigma) on the call's side, and the call has returned.
RoundTripDone ==
  /\ iv.pc = "returned"
  /\ IsFinite(iv.gen_sigma)
  /\ ValidParams(BlackScholes(iv.stock_price, iv.strike_price, iv.time_to_expiry,
                              iv.risk_free_rate, iv.gen_sigma))
  /\ iv.market_price = bs_price(iv.stock_price, iv.strike_price, iv.time_to_expiry,
                                iv.risk_free_rate, iv.option_type, iv.gen_sigma)

\* |a - b| <= 0.001
Within001(a, b) == FLe(FAbs(FSub(a, b)), Lit(1, -3))

\* 0.9 S <= K <= 1.1 S
NearTheMoney(S, K) == Between(FMul(Lit(9, -1), S), K, FMul(Lit(11, -1), S))

SidePrice(self, option_type) ==
  IF option_type = "call" THEN call_price(self) ELSE put_price(self)

\* C11: calculate_option_metrics(side, n) returns option_price equal to the
\* side's Black-Scholes price, total_cost = option_price * n * 100, breakeven =
\* K + option_price for a call and K - option_price for a put, contracts = n,
\* and a greeks bundle with exactly the keys delta, gamma, theta, vega, rho,
\* computed for the same side.
MetricsAggregation ==
  (out.op = "calculate_option_metrics" /\ out.status = "returned") =>
     /\ DOMAIN out.val = {"option_price", "total_cost", "breakeven", "greeks", "contracts"}
     /\ out.val.option_price = SidePrice(bs, out.option_type)
     /\ out.val.total_cost =
          FMul(FMul(out.val.option_price, FromInt(out.args.contracts)), FromInt(100))
     /\ out.option_type = "call" => out.val.breakeven = FAdd(bs.K, out.val.option_price)
     /\ out.option_type = "put" => out.val.breakeven = FSub(bs.K, out.val.option_price)
     /\ out.val.contracts = out.args.contracts
     /\ DOMAIN out.val.greeks = {"delta", "gamma", "theta", "vega", "rho"}
     /\ out.val.greeks.delta = delta(bs, out.option_type)
     /\ out.val.greeks.gamma = gamma(bs)
     /\ out.val.greeks.theta = theta(bs, out.option_type)
     /\ out.val.greeks.vega = vega(bs)
     /\ out.val.greeks.rho = rho(bs, out.option_type)

\* The metrics of two put contracts on a valid object, at a positive cost.
MetricsAggregationWitness ==
  /\ out.op = "calculate_option_metrics"
  /\ out.status = "returned"
  /\ out.option_type = "put"
  /\ out.args.contracts = 2
  /\ ValidParams(bs)
  /\ FLt(Zero, out.val.total_cost)
  /\ FLt(out.val.breakeven, bs.K)

\* The P&L the sweep owes at one terminal price: the intrinsic value of n
\* contracts of 100 shares less the premium.
ExpectedPnl(self, price, option_type, n, premium) ==
  IF option_type = "call"
  THEN FSub(FMul(FMul(Intrinsic(FSub(price, self.K)), FromInt(n)), FromInt(100)), premium)
  ELSE FSub(FMul(FMul(Intrinsic(FSub(self.K, price)), FromInt(n)), FromInt(100)), premium)

\* option price * n * 100 at the parameters of the object.
Premium(self, option_type, n) ==
  FMul(FMul(SidePrice(self, option_type), FromInt(n)), FromInt(100))

PnlReturned == out.op = "calculate_pnl_at_expiry" /\ out.status = "returned"

\* C12: calculate_pnl_at_expiry returns one P&L value per input price, in input
\* order; the i-th is max(0, price_i - K) * n * 100 - premium for a call and
\* max(0, K - price_i) * n * 100 - premium for a put, the premium being
\* option price * n * 100 at the object's parameters.
PnlPerPrice ==
  PnlReturned =>
     /\ Len(out.val) = Len(out.args.stock_prices)
     /\ \A i \in 1..Len(out.args.stock_prices) :
          out.val[i] = ExpectedPnl(bs, out.args.stock_prices[i], out.option_type,
                                   out.args.contracts,
                                   Premium(bs, out.option_type, out.args.contracts))

\* A put sweep over two contracts whose prices are not sorted (1.00, 0.95,
\* 1.05): a loss at the highest price, listed last, and more at the lowest.
PnlPerPriceWitness ==
  /\ PnlReturned
  /\ ValidParams(bs)
  /\ out.option_type = "put"
  /\ out.args.contracts = 2
  /\ Len(out.val) = 3
  /\ FLt(out.args.stock_prices[2], out.args.stock_prices[1])
  /\ FLt(out.args.stock_prices[1], out.args.stock_prices[3])
  /\ FLt(out.val[3], Zero)
  /\ FLt(out.val[3], out.val[2])

\* C13: for a call and any contract count, the P&L reported at a terminal price
\* equal to the strike is exactly minus the premium.
PnlAtStrike ==
  (PnlReturned /\ out.option_type = "call") =>
     \A i \in 1..Len(out.args.stock_prices) :
        (FEq(out.args.stock_prices[i], bs.K)
           /\ ~IsNaN(Premium(bs, "call", out.args.contracts))) =>
          FEq(out.val[i], FNeg(Premium(bs, "call", out.args.contracts)))

\* A call sweep over two contracts passed through the strike of a valid object.
PnlAtStrikeWitness ==
  /\ PnlReturned
  /\ out.option_type = "call"
  /\ out.args.contracts = 2
  /\ ValidParams(bs)
  /\ \E i \in 1..Len(out.args.stock_prices) :
        /\ FEq(out.args.stock_prices[i], bs.K)
        /\ FLt(out.val[i], Zero)

\* The metrics calculate_metrics returns for the long position with the
\* parameters of the session state `state`: those of the engine, untouched.
LongMetrics(state) ==
  calculate_option_metrics(SessionObject(state), Lower(state.option_type),
                           state.contracts)

MetricsReturned == out.op = "calculate_metrics" /\ out.status = "returned"

\* C14: a short position changes only the sign of total_cost in the metrics
\* calculate_metrics returns: option_price, breakeven, contracts and the five
\* Greeks are those of the long position with the same parameters.
ShortFlipsOnlyTotalCost ==
  (MetricsReturned /\ out.args.position = Short) =>
     \E long \in {LongMetrics(out.args)} :
        /\ DOMAIN out.val = DOMAIN long
        /\ out.val.option_price = long.option_price
        /\ out.val.breakeven = long.breakeven
        /\ out.val.contracts = long.contracts
        /\ out.val.greeks = long.greeks
        /\ out.val.total_cost = FNeg(long.total_cost)

\* A short call after the widgets were changed: the cost shown is negative
\* while delta keeps the sign it has for the long call.
ShortFlipsOnlyTotalCostWitness ==
  /\ MetricsReturned
  /\ out.args.position = Short
  /\ Lower(out.args.option_type) = "call"
  /\ out.args.contracts = 2
  /\ FLt(out.val.total_cost, Zero)
  /\ FLt(Zero, out.val.greeks.delta)
  /\ FLt(Zero, out.val.option_price)

\* The ten methods of the valuation engine.
EngineMethods ==
  {"call_price", "put_price", "delta", "gamma", "theta", "vega", "rho",
   "get_all_greeks", "calculate_option_metrics", "calculate_pnl_at_expiry"}

\* The step repeats the call before it: same method, same arguments.
SameCall ==
  /\ out'.op = out.op
  /\ out'.option_type = out.option_type
  /\ DOMAIN out' = DOMAIN out
  /\ "args" \in DOMAIN out => out'.args = out.args

\* C15: the valuation engine is side-effect free: no call of one of its ten
\* methods changes S, K, T, r or sigma, so the fields stay those the
\* constructor stored, and a call repeated returns (or raises) what it did.
SideEffectFree ==
  [][out'.op \in EngineMethods =>
       /\ bs' = bs
       /\ SameCall => (out'.status = out.status /\ out'.val = out.val)]_vars

\* A sweep of three prices has been computed on an object constructed after
\* the first: the object still has valid parameters and volatility 0.30.
SideEffectFreeWitness ==
  /\ out.op = "calculate_pnl_at_expiry"
  /\ out.status = "returned"
  /\ Len(out.args.stock_prices) = 3
  /\ ValidParams(bs)
  /\ bs.sigma = Lit(30, -2)
  /\ bs.r = Rate

\* gamma() or vega() was called on an object with S, K, T, sigma > 0.
CurvatureCalled == out.op \in {"gamma", "vega"} /\ ValidParams(bs)

SetProviderChecked ==
  fetch.op = "set_provider" =>
     /\ fetch.status = "returned"
     /\ fetch.provider_name \in {"yfinance", "polygon", "alpaca"} =>
          manager.current_provider = fetch.provider_name
     /\ fetch.provider_name \notin {"yfinance", "polygon", "alpaca"} =>
          manager.current_provider = fetch.before

\* set_provider('invalid') after set_provider('polygon'): still polygon.
SetProviderCheckedWitness ==
  /\ fetch.op = "set_provider"
  /\ fetch.provider_name = "invalid"
  /\ fetch.before = "polygon"
  /\ manager.current_provider = "polygon"
  /\ manager.default_provider = "yfinance"

\* The place of a provider in the order of registration.
RegistrationIndex(name) == CHOOSE i \in 1..Len(providers) : providers[i] = name

\* The providers the fallback owes a call when `selected` raised: the others,
\* each only if all the others registered before it raised too.
FallbackOwed(selected, behaviour) ==
  {p \in Registered \ {selected} :
     \A q \in Registered \ {selected} :
        RegistrationIndex(q) < RegistrationIndex(p) => behaviour[q] = "raises"}

\* get_stock_data was called and the provider it selected is registered.
StockDataCalled ==
  /\ fetch.op = "get_stock_data"
  /\ SelectedProvider(manager, fetch.provider) \in Registered

\* The selected provider's get_stock_data raised.
SelectedRaised ==
  StockDataCalled /\ fetch.behaviour[SelectedProvider(manager, fetch.provider)] = "raises"

\* The provider of the k-th call made.
Called(k) == fetch.calls[k][1]

\* C18: when the selected provider raises, the other registered providers are
\* tried in registration order, each at most once and never the failed one;
\* the result of the first that does not raise is returned, None when every
\* provider raises, and no exception reaches the caller.
FallbackInOrder ==
  SelectedRaised =>
     /\ fetch.status = "returned"
     /\ Called(1) = SelectedProvider(manager, fetch.provider)
     /\ {Called(k) : k \in 2..Len(fetch.calls)} =
          FallbackOwed(Called(1), fetch.behaviour)
     /\ \A k \in 1..Len(fetch.calls) : fetch.calls[k][2] = fetch.symbol
     /\ \A k \in 2..Len(fetch.calls) : Called(k) # Called(1)
     /\ \A k, l \in 2..Len(fetch.calls) :
          k < l => RegistrationIndex(Called(k)) < RegistrationIndex(Called(l))
     /\ IF \A p \in Registered : fetch.behaviour[p] = "raises"
        THEN fetch.val = None /\ Len(fetch.calls) = Len(providers)
        ELSE /\ fetch.behaviour[Called(Len(fetch.calls))] # "raises"
             /\ fetch.val = Reply(Called(Len(fetch.calls)), fetch.symbol,
                                  fetch.behaviour)

\* yfinance, the current provider, raised, polygon raised after it, and
\* alpaca's data came back: three calls, one per provider.
FallbackInOrderWitness ==
  /\ SelectedRaised
  /\ fetch.provider = NoProvider
  /\ manager.current_provider = "yfinance"
  /\ fetch.behaviour["polygon"] = "raises"
  /\ fetch.behaviour["alpaca"] = "data"
  /\ Len(fetch.calls) = 3
  /\ fetch.val.source = "alpaca"

\* C19: when the selected provider returns without raising, it is called
\* exactly once with the given symbol, no other provider is called, and what
\* it returned is returned unchanged.
SelectedOnlyOnSuccess ==
  (StockDataCalled /\ ~SelectedRaised) =>
     /\ fetch.status = "returned"
     /\ fetch.calls = <<<<SelectedProvider(manager, fetch.provider), fetch.symbol>>>>
     /\ fetch.val = Reply(SelectedProvider(manager, fetch.provider), fetch.symbol,
                          fetch.behaviour)

\* polygon, named in the call, returned None while yfinance, the current
\* provider, had data: None is returned and yfinance is not asked.
SelectedOnlyOnSuccessWitness ==
  /\ StockDataCalled
  /\ fetch.provider = "polygon"
  /\ manager.current_provider = "yfinance"
  /\ fetch.behaviour["polygon"] = "none"
  /\ fetch.behaviour["yfinance"] = "data"
  /\ fetch.val = None
  /\ Len(fetch.calls) = 1

\* C20: _make_request returns None, and does not raise, when the HTTP GET
\* fails by raising an exception, a plain Exception included.
MakeRequestFailureIsNone ==
  (fetch.op = "_make_request" /\ fetch.requested /\ fetch.http # "ok") =>
     /\ fetch.status = "returned"
     /\ fetch.val = None

\* None or a price record: the two outcomes of a provider's get_stock_data.
RecordOrNone(v) == v = None \/ (v.kind = "dict" /\ "price" \in DOMAIN v)

\* The selected library raised while provider fetch.name was fetching.
FetchRaisedInside ==
  \/ fetch.name = "yfinance" /\ fetch.world.yf = "exception"
  \/ /\ fetch.name = "polygon" /\ fetch.world.api_key # ""
     /\ \/ fetch.world.http1 = "exception"
        \/ fetch.world.http1 = "ok" /\ fetch.world.http2 = "exception"
  \/ fetch.name = "alpaca" /\ fetch.world.has_api /\ fetch.world.api = "exception"

\* C21: a provider's get_stock_data(symbol) ends in a price record or None:
\* an exception raised while fetching becomes None and never propagates, and
\* get_current_price passes absent data on as None, and the Home page shows
\* an error and stores nothing, instead of failing.
ProviderFailureIsNone ==
  /\ fetch.op = "provider_get_stock_data" =>
       /\ fetch.status = "returned"
       /\ RecordOrNone(fetch.val)
       /\ FetchRaisedInside => fetch.val = None
  /\ fetch.op = "get_current_price" =>
       /\ fetch.status = "returned"
       /\ fetch.val = None \/ fetch.val.kind = "float"
  /\ fetch.op = "get_live_price" =>
       /\ fetch.shown \in {"success", "error"}
       /\ fetch.shown = "error" <=> fetch.val = None
       /\ fetch.shown = "error" => session = fetch.before

\* Polygon's second request met a plain Exception, which _make_request lets
\* through: get_stock_data returned None.
ProviderFailureIsNoneWitness ==
  /\ fetch.op = "provider_get_stock_data"
  /\ fetch.name = "polygon"
  /\ fetch.world.api_key = "test_key"
  /\ fetch.world.http1 = "ok"
  /\ fetch.world.http2 = "exception"
  /\ fetch.status = "returned"
  /\ fetch.val = None

\* C22: in the surface and heatmap sweeps every grid cell (i, j) is written
\* exactly once, with the engine value for row parameter i and column price
\* stock_prices[j], whatever the other cells hold.
SweepCellsHoldEngineValue ==
  sweep.fn \in {"surface", "heatmap"} /\ sweep.pc \in {"loop", "returned"} =>
    \A c \in DOMAIN sweep.grid :
      /\ sweep.writes[c] <= 1
      /\ sweep.pc = "returned" => sweep.writes[c] = 1
      /\ sweep.writes[c] = 1 =>
           sweep.grid[c] = option_price_of(CellEngine(sweep, c[1], c[2]),
                                           sweep.option_type)

\* C30: create_multi_strike_pnl prices one entry premium per strike, at spot
\* stock_prices[0], and every point of the strike's curve is
\* max(0, s - strike) - premium for a call, max(0, strike - s) - premium for
\* a put.
MultiStrikeReturned == sweep.fn = "multi_strike" /\ sweep.pc = "returned"

MultiStrikePremium(i) ==
  option_price_of(BlackScholes(sweep.stock_prices.values[1], sweep.strikes[i],
                               sweep.time_to_expiry, sweep.risk_free_rate,
                               sweep.volatility),
                  sweep.option_type)

PremiumAtFirstPrice ==
  MultiStrikeReturned =>
    /\ Len(sweep.curves) = Len(sweep.strikes)
    /\ \A i \in 1..Len(sweep.strikes) :
         /\ Len(sweep.curves[i]) = Len(sweep.stock_prices.values)
         /\ \E premium \in {MultiStrikePremium(i)} :
              \A k \in 1..Len(sweep.stock_prices.values) :
                sweep.curves[i][k] =
                  FSub(IF sweep.option_type = "call"
                       THEN PyMax0(FSub(sweep.stock_prices.values[k], sweep.strikes[i]))
                       ELSE PyMax0(FSub(sweep.strikes[i], sweep.stock_prices.values[k])),
                       premium)

\* Two strikes swept over two prices: a put whose second strike is in the
\* money at the first price and out of it at the second.
PremiumAtFirstPriceWitness ==
  /\ MultiStrikeReturned
  /\ sweep.option_type = "put"
  /\ Len(sweep.curves) = 2
  /\ Len(sweep.stock_prices.values) = 2
  /\ sweep.stock_prices.values[1] # sweep.stock_prices.values[2]
  /\ FLt(sweep.curves[2][2], sweep.curves[2][1])

\* C23: calculate_implied_volatility starts from sigma = 0.20, and every
\* iteration that neither converges nor sees zero vega replaces sigma by
\* sigma - (modelPrice(sigma) - marketPrice) / (100 * vega()), price and vega
\* both taken at the sigma the iteration started with (the result is then
\* kept positive, line 188).
IvEntered == iv.pc # "loop" /\ iv'.pc = "loop"

IvUpdated == iv.pc = "loop" /\ iv' # iv /\ iv'.exit \in {"none", "exhausted"}

CurrentEngine ==
  BlackScholes(iv.stock_price, iv.strike_price, iv.time_to_expiry, iv.risk_free_rate,
               iv.vol)

NewtonStepAtCurrentSigma ==
  [][/\ IvEntered => iv'.vol = Lit(20, -2) /\ iv'.i = 0
     /\ IvUpdated =>
          \E modelPrice \in {option_price_of(CurrentEngine, iv.option_type)},
             full_vega \in {FMul(FromInt(100), vega(CurrentEngine))} :
            \E update \in {FSub(iv.vol, FDiv(FSub(modelPrice, iv.market_price),
                                             full_vega))} :
              iv'.vol = IF FLe(update, Zero) THEN Lit(1, -2) ELSE update]_vars

\* A solve two updates in, at a sigma that is neither the initial guess nor
\* the floor.
NewtonStepAtCurrentSigmaWitness ==
  /\ iv.pc = "loop"
  /\ iv.i = 2
  /\ iv.vol # Lit(20, -2)
  /\ iv.vol # Lit(1, -2)
  /\ IsFinite(iv.vol)

\* C29: when calculate_implied_volatility leaves the loop by exhausting its
\* 100 iterations, the model price was evaluated exactly 100 times and the
\* returned sigma is the clamped result of the 100th update, a value whose
\* residual was never tested against the tolerance: in particular it is
\* not the sigma the 100th residual was measured at.
IvExhausted == iv.exit = "exhausted"

LastUpdate == FSub(iv.vol_in, FDiv(iv.price_diff, iv.vega))

ReturnsLastUpdate ==
  \E update \in {LastUpdate} :
    /\ iv.vol = IF FLe(update, Zero) THEN Lit(1, -2) ELSE update
    /\ out.op = "calculate_implied_volatility"
    /\ out.val = iv.vol

ExhaustedValueNeverTested ==
  IvExhausted =>
    /\ iv.evals = 100
    /\ ReturnsLastUpdate
    /\ iv.vol # iv.vol_in

\* C29, as the code has it: after 100 evaluations of the model price the
\* call returns the clamped result of the 100th update, computed from the
\* residual and vega of the 100th iteration, and evaluates nothing after
\* it; the last residual tested, at the sigma before that update, failed
\* the tolerance.
LastResidual ==
  FSub(option_price_of(BlackScholes(iv.stock_price, iv.strike_price, iv.time_to_expiry,
                                    iv.risk_free_rate, iv.vol_in),
                       iv.option_type),
       iv.market_price)

ExhaustedAfterHundredEvaluations ==
  IvExhausted =>
    /\ iv.pc = "returned"
    /\ iv.evals = 100
    /\ ReturnsLastUpdate
    /\ iv.price_diff = LastResidual
    /\ ~FLt(FAbs(iv.price_diff), Lit(1, -6))

\* The quote below the intrinsic value: every update is clamped to 0.01, the
\* 100th residual is measured at 0.01 and 0.01 is returned.
ExhaustedAfterHundredEvaluationsWitness ==
  /\ IvExhausted
  /\ iv.vol = Lit(1, -2)
  /\ iv.vol_in = Lit(1, -2)
  /\ iv.evals = 100

\* C28: for a long position with premium >= 0 every value of
\* calculate_pnl_at_expiry is at least -premium, and for prices in ascending
\* order the call P&L never decreases along the list and the put P&L never
\* increases.
AscendingPrices ==
  \A i \in 1..(Len(out.args.stock_prices) - 1) :
    FLe(out.args.stock_prices[i], out.args.stock_prices[i + 1])

PnlMonotone ==
  \A i \in 1..(Len(out.val) - 1) :
    IF out.option_type = "call" THEN FLe(out.val[i], out.val[i + 1])
    ELSE FLe(out.val[i + 1], out.val[i])

LossBoundedByPremium ==
  PnlReturned =>
    \E premium \in {Premium(bs, out.option_type, out.args.contracts)} :
      FLe(Zero, premium) =>
        /\ \A i \in 1..Len(out.val) : FLe(FNeg(premium), out.val[i])
        /\ AscendingPrices => PnlMonotone

\* A call over 0.95, 1.00, 1.05, 1.10 struck at 1.05: the whole premium is
\* lost up to the strike, and less above it.
LossBoundedByPremiumWitness ==
  /\ PnlReturned
  /\ out.option_type = "call"
  /\ Len(out.val) = 4
  /\ AscendingPrices
  /\ bs.K = Lit(105, -2)
  /\ FLt(Zero, Premium(bs, "call", out.args.contracts))
  /\ out.val[1] = FNeg(Premium(bs, "call", out.args.contracts))
  /\ out.val[1] = out.val[3]
  /\ FLt(out.val[3], out.val[4])

\* C24: on a manager constructed with its default arguments, after any
\* sequence of set_provider and data-access calls, current_provider is one of
\* yfinance, polygon, alpaca, and get_provider() returns without a KeyError.
CurrentProviderRegistered ==
  manager.default_provider = "yfinance" =>
     /\ manager.current_provider \in {"yfinance", "polygon", "alpaca"}
     /\ fetch.op = "get_provider" => fetch.status = "returned"

\* get_provider() on the default manager after set_provider('polygon').
CurrentProviderRegisteredWitness ==
  /\ manager.default_provider = "yfinance"
  /\ fetch.op = "get_provider"
  /\ fetch.status = "returned"
  /\ fetch.val = "polygon"

\* C25: when the provider get_stock_data selected returns None, that None is
\* returned after this one call, and no fallback provider is tried.
NoneIsNoFailure ==
  \A p \in {"yfinance", "polygon", "alpaca"} :
     (fetch.op = "get_stock_data" /\ fetch.used = p /\ fetch.behaviour[p] = "none") =>
        /\ fetch.status = "returned"
        /\ fetch.val = None
        /\ fetch.calls = <<<<p, fetch.symbol>>>>

\* alpaca, the current provider, returned None while yfinance and polygon
\* had data: None came back from the one call.
NoneIsNoFailureWitness ==
  /\ fetch.op = "get_stock_data"
  /\ Falsy(fetch.provider)
  /\ manager.current_provider = "alpaca"
  /\ fetch.behaviour["alpaca"] = "none"
  /\ fetch.behaviour["yfinance"] = "data"
  /\ fetch.behaviour["polygon"] = "data"
  /\ fetch.val = None
  /\ Len(fetch.calls) = 1

\* The eight data-access operations of the manager.
DataAccessNames ==
  {"get_stock_data", "get_historical_data", "calculate_historical_volatility",
   "get_market_overview", "get_options_chain", "search_stocks", "get_company_info",
   "get_risk_free_rate"}

\* C26: a data-access operation leaves current_provider and default_provider
\* as they were, whatever its outcome; current_provider changes only in a
\* set_provider call (or with the construction of a new manager).
DataAccessKeepsSelection ==
  [][/\ fetch'.op \in DataAccessNames =>
          /\ manager'.current_provider = manager.current_provider
          /\ manager'.default_provider = manager.default_provider
     /\ manager'.current_provider # manager.current_provider =>
          fetch'.op = "set_provider" \/ fetch' = NoFetch]_vars

\* calculate_historical_volatility fell back from polygon, the current
\* provider, to alpaca after yfinance: polygon is still current.
DataAccessKeepsSelectionWitness ==
  /\ fetch.op = "calculate_historical_volatility"
  /\ fetch.provider = NoProvider
  /\ fetch.calls = <<"polygon", "yfinance", "alpaca">>
  /\ fetch.behaviour["alpaca"] = "data"
  /\ fetch.val.source = "alpaca"
  /\ manager.current_provider = "polygon"
  /\ manager.default_provider = "yfinance"

\* As C27 is worded: an argument that is no registered name selects
\* default_provider, the empty string included.
UnregisteredSelectsDefault ==
  (fetch.op \in DataAccessNames /\ fetch.provider # NoProvider
     /\ fetch.provider \notin {"yfinance", "polygon", "alpaca"}) =>
        fetch.used = manager.default_provider

\* C27: a data-access operation selects default_provider for an argument
\* that is true and no registered name, current_provider for an argument
\* that is omitted, None or otherwise false (the empty string), and the name
\* given when it is registered, whatever current_provider is.
SelectionByArgument ==
  fetch.op \in DataAccessNames =>
     /\ fetch.provider \in {NoProvider, ""} =>
          fetch.used = manager.current_provider
     /\ fetch.provider \in {"yfinance", "polygon", "alpaca"} =>
          fetch.used = fetch.provider
     /\ fetch.provider \notin {NoProvider, "", "yfinance", "polygon", "alpaca"} =>
          fetch.used = manager.default_provider

\* get_risk_free_rate(provider='invalid') with alpaca current and yfinance
\* the default: yfinance is asked, and its rate comes back.
SelectionByArgumentWitness ==
  /\ fetch.op = "get_risk_free_rate"
  /\ fetch.provider = "invalid"
  /\ manager.current_provider = "alpaca"
  /\ manager.default_provider = "yfinance"
  /\ fetch.used = "yfinance"
  /\ fetch.calls = <<"yfinance">>
  /\ fetch.val = [kind |-> "result", op |-> "get_risk_free_rate", source |-> "yfinance"]

====
